---------------------------- MODULE Spec2Model ----------------------------
(***************************************************************************)
(* Arc Raiders Config Tuner (arc_tuner.py): the ConfigManager, the         *)
(* setting catalog and the parts of ArcTunerApp that read and write the    *)
(* configuration document.                                                 *)
(*                                                                         *)
(* Text is a sequence of atoms.  An atom is a TLA+ string standing for a   *)
(* run of characters that the code never looks inside ("DLSSMode",         *)
(* "Quality") or for one character it does look at ("[", "]", "=", " ",    *)
(* the line feed LF, ".", and the characters of profile names).  The       *)
(* empty text is << >>.  An optional value (Python's None or a value) is   *)
(* a sequence of length 0 or 1.  A Python dict is the sequence of its      *)
(* (key, value) pairs in insertion order.                                  *)
(***************************************************************************)
EXTENDS Naturals, Sequences, FiniteSets, TLC

VARIABLES
    config_path,     \* ConfigManager.config_path: None or a path
    backup_dir,      \* ConfigManager.backup_dir: None or a directory
    profiles_dir,    \* ConfigManager.profiles_dir: None or a directory
    current_config,  \* ConfigManager.current_config: the document
    files,           \* the config and backup files: path -> [content, mtime]
    profile_files,   \* the profile files: path -> what the file holds
    host,            \* the host: which system directories exist, its symlinks
    now,             \* the wall clock, in seconds
    ret,             \* the outcome of the last call
    steps,           \* calls made so far
    setting_widgets, \* ArcTunerApp.setting_widgets: key -> the widget's value
    unsaved_changes, \* ArcTunerApp.unsaved_changes
    competitive_cards, \* the cards of the Competitive Settings tab
    history,         \* the calls made so far and their outcomes
    loaded           \* the text of the config file when the window loaded it

app == <<setting_widgets, unsaved_changes, competitive_cards>>
observed == <<history, loaded>>

vars == <<config_path, backup_dir, profiles_dir, current_config, files,
          profile_files, host, now, ret, steps, app, observed>>

-----------------------------------------------------------------------------
(* Bounds of the model.                                                    *)

MaxSteps == 4
MaxClock == 2

-----------------------------------------------------------------------------
(* Optional values and Python dicts.                                       *)

None == << >>
Some(v) == << v >>

Range(s) == { s[i] : i \in 1..Len(s) }

DictKeys(d) == { d[i][1] : i \in 1..Len(d) }
DictHas(d, k) == \E i \in 1..Len(d) : d[i][1] = k
DictIndex(d, k) == CHOOSE i \in 1..Len(d) : d[i][1] = k
DictGet(d, k, dflt) == IF DictHas(d, k) THEN d[DictIndex(d, k)][2] ELSE dflt
DictSet(d, k, v) ==
    IF DictHas(d, k)
    THEN [d EXCEPT ![DictIndex(d, k)] = <<k, v>>]
    ELSE Append(d, <<k, v>>)
DictDel(d, k) == SelectSeq(d, LAMBDA e : e[1] # k)

-----------------------------------------------------------------------------
(* Python str operations on text.                                          *)

LF == "LF"
Whitespace == {" ", LF}

RECURSIVE lstrip(_)
lstrip(s) ==
    IF s # << >> /\ Head(s) \in Whitespace THEN lstrip(Tail(s)) ELSE s

RECURSIVE rstrip(_)
rstrip(s) ==
    IF s # << >> /\ s[Len(s)] \in Whitespace
    THEN rstrip(SubSeq(s, 1, Len(s) - 1))
    ELSE s

strip(s) == rstrip(lstrip(s))

startswith(s, a) == s # << >> /\ Head(s) = a
endswith(s, a) == s # << >> /\ s[Len(s)] = a

Find(s, a) ==
    IF \E i \in 1..Len(s) : s[i] = a
    THEN CHOOSE i \in 1..Len(s) : s[i] = a /\ \A j \in 1..(i - 1) : s[j] # a
    ELSE 0

\* str.rpartition(a): the split at the last a instead of the first
rpartition(s, a) ==
    IF Find(s, a) = 0
    THEN << s, << >> >>
    ELSE LET i == CHOOSE i \in 1..Len(s) :
                     s[i] = a /\ \A j \in (i + 1)..Len(s) : s[j] # a
         IN  << SubSeq(s, 1, i - 1), SubSeq(s, i + 1, Len(s)) >>

\* str.partition(a): (text before the first a, text after it)
partition(s, a) ==
    IF Find(s, a) = 0
    THEN << s, << >> >>
    ELSE << SubSeq(s, 1, Find(s, a) - 1), SubSeq(s, Find(s, a) + 1, Len(s)) >>

\* The lines a text file yields when iterated: split at every line feed.
RECURSIVE SplitLines(_)
SplitLines(t) ==
    IF t = << >> THEN << >>
    ELSE IF Find(t, LF) = 0 THEN << t >>
    ELSE << SubSeq(t, 1, Find(t, LF) - 1) >>
         \o SplitLines(SubSeq(t, Find(t, LF) + 1, Len(t)))

\* for x in s: acc = Op(acc, x).  Each value of acc is computed once, as
\* the one element of a set, before the loop goes on.
RECURSIVE Fold(_, _, _)
Fold(Op(_, _), acc, s) ==
    IF s = << >> THEN acc
    ELSE CHOOSE result \in { Fold(Op, next, Tail(s)) :
                                next \in { Op(acc, Head(s)) } } : TRUE

RECURSIVE Concat(_)
Concat(ss) == IF ss = << >> THEN << >> ELSE Head(ss) \o Concat(Tail(ss))

LowerAtom(a) ==
    CASE a = "INI" -> "ini"
      [] a = "Ini" -> "ini"
      [] a = "JSON" -> "json"
      [] a = "TXT" -> "txt"
      [] a = "True" -> "true"
      [] a = "TRUE" -> "true"
      [] a = "False" -> "false"
      [] a = "FALSE" -> "false"
      [] OTHER -> a

lower(s) == [i \in 1..Len(s) |-> LowerAtom(s[i])]

-----------------------------------------------------------------------------
(* The setting catalog.  The model carries these definitions of            *)
(* SETTINGS_DEFINITIONS, in the catalog's order: one of every setting type *)
(* in the ordinary tabs, and of the Competitive Settings the two           *)
(* mouse-smoothing definitions, a choice with (value, label) options and a *)
(* slider.                                                                 *)

Embark == <<"/Script/EmbarkUserSettings.EmbarkGameUserSettings">>


StrDefault(s) == [t |-> "str", s |-> s, b |-> FALSE, n |-> 0]
BoolDefault(b) == [t |-> "bool", s |-> << >>, b |-> b, n |-> 0]
IntDefault(n) == [t |-> "int", s |-> << >>, b |-> FALSE, n |-> n]

\* str(definition.default)
str(d) ==
    CASE d.t = "str" -> d.s
      [] d.t = "bool" -> IF d.b THEN <<"True">> ELSE <<"False">>
      [] d.t = "int" -> <<ToString(d.n)>>

\* options given as plain strings
Plain(opts) == [i \in 1..Len(opts) |-> <<opts[i], opts[i]>>]

SettingDefinition(key, type, section, category, options, default) ==
    [key |-> key, setting_type |-> type, section |-> section,
     category |-> category, options |-> options, default |-> default]

SETTINGS_DEFINITIONS ==
    << << <<"DLSSMode">>,
          SettingDefinition(<<"DLSSMode">>, "choice", Embark, "Upscaling",
              Plain(<< <<"DLAA">>, <<"Quality">>, <<"Balanced">>,
                       <<"Performance">>, <<"UltraPerformance">> >>),
              StrDefault(<<"Quality">>)) >>,
       << <<"FullscreenMode">>,
          SettingDefinition(<<"FullscreenMode">>, "choice", Embark, "Display",
              << << <<"0">>, <<"Exclusive Fullscreen">> >>,
                 << <<"1">>, <<"Borderless Windowed">> >>,
                 << <<"2">>, <<"Windowed">> >> >>,
              StrDefault(<<"1">>)) >>,
       << <<"bUseVSync">>,
          SettingDefinition(<<"bUseVSync">>, "boolean", Embark, "Display",
              << >>, BoolDefault(FALSE)) >>,
       << <<"FrameRateLimit">>,
          SettingDefinition(<<"FrameRateLimit">>, "number", Embark, "Display",
              << >>, IntDefault(0)) >>,
       << <<"sg.ResolutionQuality">>,
          SettingDefinition(<<"sg.ResolutionQuality">>, "slider",
              <<"ScalabilityGroups">>, "Quality Settings", << >>,
              IntDefault(100)) >>,
       << <<"bEnableMouseSmoothing">>,
          SettingDefinition(<<"bEnableMouseSmoothing">>, "boolean",
              <<"/Script/Engine.InputSettings">>, "Competitive Settings",
              << >>, BoolDefault(FALSE)) >>,
       << <<"bEnableMouseSmoothing_Engine">>,
          SettingDefinition(<<"bEnableMouseSmoothing">>, "boolean",
              <<"/Script/Engine.GameUserSettings">>, "Competitive Settings",
              << >>, BoolDefault(FALSE)) >>,
       << <<"r.SceneColorFringe.Max">>,
          SettingDefinition(<<"r.SceneColorFringe.Max">>, "choice",
              <<"SystemSettings">>, "Competitive Settings",
              << << <<"0">>, <<"Off (Competitive)">> >>,
                 << <<"0.5">>, <<"Low">> >>,
                 << <<"1">>, <<"Full">> >> >>,
              StrDefault(<<"0">>)) >>,
       << <<"r.Tonemapper.Sharpen">>,
          SettingDefinition(<<"r.Tonemapper.Sharpen">>, "slider",
              <<"SystemSettings">>, "Competitive Settings", << >>,
              IntDefault(0)) >> >>

CatalogKeys == DictKeys(SETTINGS_DEFINITIONS)

-----------------------------------------------------------------------------
(* Paths.  A path is the sequence of its components, each a text; the last *)
(* component is the file name.                                             *)

parent(p) == SubSeq(p, 1, Len(p) - 1)
name(p) == p[Len(p)]
Child(dir, file) == Append(dir, file)

RFind(s, a) ==
    IF \E i \in 1..Len(s) : s[i] = a
    THEN CHOOSE i \in 1..Len(s) :
            s[i] = a /\ \A j \in (i + 1)..Len(s) : s[j] # a
    ELSE 0

\* Path.suffix: the file name from its last "." on, unless the name starts
\* or ends with that "."
suffix(p) ==
    LET n == name(p)
        i == RFind(n, ".")
    IN  IF 1 < i /\ i < Len(n) THEN SubSeq(n, i, Len(n)) ELSE << >>

\* Path.stem: the file name without its suffix
stem(p) ==
    LET n == name(p)
        i == RFind(n, ".")
    IN  IF 1 < i /\ i < Len(n) THEN SubSeq(n, 1, i - 1) ELSE n

IsPrefix(a, b) == Len(a) <= Len(b) /\ SubSeq(b, 1, Len(a)) = a

\* The symbolic links of the host on the way of p: the shortest prefix of p
\* that is a link is replaced by the link's target, again and again.  A
\* path met twice is a loop, and Path.resolve() raises: None.
RECURSIVE ResolveFrom(_, _)
ResolveFrom(p, seen) ==
    IF p \in seen THEN None
    ELSE IF \E i \in 1..Len(p) : DictHas(host.links, SubSeq(p, 1, i))
    THEN LET FirstLink ==
                 CHOOSE i \in 1..Len(p) :
                     /\ DictHas(host.links, SubSeq(p, 1, i))
                     /\ \A j \in 1..(i - 1) :
                           ~DictHas(host.links, SubSeq(p, 1, j))
         IN  ResolveFrom(
                 DictGet(host.links, SubSeq(p, 1, FirstLink), << >>)
                     \o SubSeq(p, FirstLink + 1, Len(p)),
                 seen \cup {p})
    ELSE Some(p)

\* Path.resolve(): raises on a null character in the path (ValueError) and
\* on a loop of links (RuntimeError)
resolve(p) ==
    IF \E i \in 1..Len(p) : Find(p[i], "NUL") # 0 THEN None
    ELSE ResolveFrom(p, {})

forbidden_paths ==
    << << <<"C:">>, <<"Windows">> >>,
       << <<"C:">>, <<"Program Files">> >>,
       << <<"C:">>, <<"Program Files (x86)">> >>,
       << <<"etc">> >>,
       << <<"usr">> >>,
       << <<"bin">> >> >>

\* resolved.relative_to(forbidden.resolve()) does not raise ValueError
relative_to(resolved, base) == IsPrefix(base, resolved)

AllowedSuffixes == { <<".", "ini">>, <<".", "json">>, << >> }

\* validate_path comparing the path as given, its links not followed
validate_path_lexical(path) ==
    IF \E i \in 1..Len(forbidden_paths) :
          forbidden_paths[i] \in host.dirs /\ IsPrefix(forbidden_paths[i], path)
    THEN FALSE
    ELSE lower(suffix(path)) \in AllowedSuffixes

validate_path(path) ==
    IF resolve(path) = None \/
       \E i \in 1..Len(forbidden_paths) :
           forbidden_paths[i] \in host.dirs /\ resolve(forbidden_paths[i]) = None
    THEN FALSE                                   \* except Exception
    ELSE IF \E i \in 1..Len(forbidden_paths) :
               /\ forbidden_paths[i] \in host.dirs
               /\ relative_to(resolve(path)[1], resolve(forbidden_paths[i])[1])
    THEN FALSE
    ELSE IF lower(suffix(path)) \notin AllowedSuffixes
    THEN FALSE
    ELSE TRUE


-----------------------------------------------------------------------------
(* The config file format: read_config's parser, write_config's writer.    *)

\* current_section is None before the first header, else Some(name)
ParseLine(line, st) ==
    LET l == strip(line)
        config == st[1]
        current_section == st[2]
    IN  IF l = << >> THEN st
        ELSE IF startswith(l, "[") /\ endswith(l, "]")
        THEN LET sec == SubSeq(l, 2, Len(l) - 1)
             IN  << IF DictHas(config, sec) THEN config
                    ELSE Append(config, <<sec, << >> >>),
                    Some(sec) >>
        ELSE IF Find(l, "=") # 0 /\ current_section # None
                /\ current_section[1] # << >>
        THEN LET kv == partition(l, "=")
                 sec == current_section[1]
             IN  << DictSet(config, sec,
                        DictSet(DictGet(config, sec, << >>),
                                strip(kv[1]), strip(kv[2]))),
                    current_section >>
        ELSE st

ParseConfig(text) ==
    LET Parse(st, line) == ParseLine(line, st)
    IN  Fold(Parse, << << >>, None >>, SplitLines(text))[1]

\* what write_config writes: per section the header, one line per pair of
\* the section, and an empty line
Serialize(config) ==
    Concat([i \in 1..Len(config) |->
        <<"[">> \o config[i][1] \o <<"]", LF>>
        \o Concat([j \in 1..Len(config[i][2]) |->
               config[i][2][j][1] \o <<"=">> \o config[i][2][j][2] \o <<LF>>])
        \o <<LF>>])

-----------------------------------------------------------------------------
(* The file system.                                                        *)

exists(p) == p \in DOMAIN files

Put(fs, p, file) ==
    [q \in (DOMAIN fs) \cup {p} |-> IF q = p THEN file ELSE fs[q]]

File(content, mtime) == [content |-> content, mtime |-> mtime]

DEFAULT_CONFIG_PATH ==
    << <<"LOCALAPPDATA">>, <<"PioneerGame">>, <<"Saved">>, <<"Config">>,
       <<"WindowsClient">>, <<"GameUserSettings", ".", "ini">> >>

-----------------------------------------------------------------------------
(* ConfigManager.  Every call records its outcome in ret: the exception    *)
(* it raised (exc, "" when it returned), its success flag or whether its   *)
(* optional result is a value (ok), and the value it returned (val).       *)

Outcome(op, arg, exc, ok, val) ==
    /\ ret' = [op |-> op, arg |-> arg, exc |-> exc, ok |-> ok, val |-> val]
    /\ steps' = steps + 1

Returns(op, arg, ok, val) == Outcome(op, arg, "", ok, val)
Raises(op, arg, exc) == Outcome(op, arg, exc, FALSE, None)

\* initialize's result and the fields it leaves.  mkdir(parents=True,
\* exist_ok=True): a directory is there once a path below it is named; the
\* model keeps no separate record of directories.
initialize_on(path_arg) ==
    LET path == IF path_arg # None THEN path_arg[1] ELSE DEFAULT_CONFIG_PATH
    IN  IF ~exists(path)
        THEN [ok |-> FALSE, config_path |-> Some(path),
              backup_dir |-> backup_dir, profiles_dir |-> profiles_dir]
        ELSE [ok |-> TRUE, config_path |-> Some(path),
              backup_dir |->
                  Some(Child(parent(path), <<"ArcTuner_Backups">>)),
              profiles_dir |->
                  Some(Child(parent(path), <<"ArcTuner_Profiles">>))]

initialize(path_arg) ==
    /\ config_path' = initialize_on(path_arg).config_path
    /\ backup_dir' = initialize_on(path_arg).backup_dir
    /\ profiles_dir' = initialize_on(path_arg).profiles_dir
    /\ Returns("initialize", path_arg, initialize_on(path_arg).ok, None)
    /\ UNCHANGED <<current_config, files, profile_files, host, now>>

read_config ==
    /\ IF config_path = None \/ ~exists(config_path[1])
       THEN /\ UNCHANGED current_config
            /\ Raises("read_config", << >>, "FileNotFoundError")
       ELSE /\ current_config' = ParseConfig(files[config_path[1]].content)
            /\ Returns("read_config", << >>, TRUE, Some(current_config'))
    /\ UNCHANGED <<config_path, backup_dir, profiles_dir, files, profile_files,
                   host, now>>

\* io: "ok", or the I/O error of this call: "open" (open() fails, the file
\* is untouched) or "write" (writing fails once `done` sections are written)
write_config_on(fs, config, io, done) ==
    IF config_path = None
    THEN [exc |-> "ValueError", ok |-> FALSE, fs |-> fs]
    ELSE IF ~validate_path(config_path[1])
    THEN [exc |-> "ValueError", ok |-> FALSE, fs |-> fs]
    ELSE IF io = "open"
    THEN [exc |-> "", ok |-> FALSE, fs |-> fs]
    ELSE IF io = "write"
    THEN [exc |-> "", ok |-> FALSE,
          fs |-> Put(fs, config_path[1],
                     File(Serialize(SubSeq(config, 1, done)), now))]
    ELSE [exc |-> "", ok |-> TRUE,
          fs |-> Put(fs, config_path[1], File(Serialize(config), now))]

write_config(config, io, done) ==
    \E written \in { write_config_on(files, config, io, done) } :
        /\ files' = written.fs
        /\ current_config' = IF written.ok THEN config ELSE current_config
        /\ Outcome("write_config", <<config>>, written.exc, written.ok, None)
        /\ UNCHANGED <<config_path, backup_dir, profiles_dir, profile_files,
                       host, now>>

\* get_setting reading the entry named by the definition's key field
get_setting_by_definition_key(key) ==
    IF ~DictHas(SETTINGS_DEFINITIONS, key) THEN None
    ELSE LET definition == DictGet(SETTINGS_DEFINITIONS, key, << >>)
             section_config == DictGet(current_config, definition.section, << >>)
         IN  Some(DictGet(section_config, definition.key, str(definition.default)))

\* get_setting's result when the document is `config`
\* get_setting, were the default left out
get_setting_without_default(config, key) ==
    IF ~DictHas(SETTINGS_DEFINITIONS, key) THEN None
    ELSE LET definition == DictGet(SETTINGS_DEFINITIONS, key, << >>)
             section_config == DictGet(config, definition.section, << >>)
         IN  IF DictHas(section_config, key)
             THEN Some(DictGet(section_config, key, << >>))
             ELSE None

get_setting_of(config, key) ==
    IF ~DictHas(SETTINGS_DEFINITIONS, key) THEN None
    ELSE LET definition == DictGet(SETTINGS_DEFINITIONS, key, << >>)
             section_config == DictGet(config, definition.section, << >>)
         IN  Some(DictGet(section_config, key, str(definition.default)))

get_setting_value(key) == get_setting_of(current_config, key)

get_setting(key) ==
    /\ Returns("get_setting", <<key>>, get_setting_value(key) # None,
               get_setting_value(key))
    /\ UNCHANGED <<config_path, backup_dir, profiles_dir, current_config,
                   files, profile_files, host, now>>

set_setting_config(config, key, value) ==
    LET definition == DictGet(SETTINGS_DEFINITIONS, key, << >>)
    IN  DictSet(config, definition.section,
                DictSet(DictGet(config, definition.section, << >>), key, value))

set_setting(key, value) ==
    /\ IF ~DictHas(SETTINGS_DEFINITIONS, key)
       THEN /\ UNCHANGED current_config
            /\ Returns("set_setting", <<key, value>>, FALSE, None)
       ELSE /\ current_config' = set_setting_config(current_config, key, value)
            /\ Returns("set_setting", <<key, value>>, TRUE, None)
    /\ UNCHANGED <<config_path, backup_dir, profiles_dir, files, profile_files,
                   host, now>>


\* datetime.now().strftime("%Y%m%d_%H%M%S"): one atom per second
timestamp == <<ToString(now)>>

backup_name(tag) ==
    <<"GameUserSettings", "_">> \o timestamp
        \o (IF tag # << >> THEN <<"_">> \o tag ELSE << >>) \o <<".", "ini">>

\* create_backup's result on the file system fs: the path it returns (None
\* on failure) and the file system it leaves.  shutil.copy2 copies the
\* file's contents and its modification time.
create_backup_on(fs, tag) ==
    IF config_path = None \/ config_path[1] \notin DOMAIN fs
    THEN [val |-> None, fs |-> fs]
    ELSE IF backup_dir = None
    THEN [val |-> None, fs |-> fs]
    ELSE LET backup_path == Child(backup_dir[1], backup_name(tag))
         IN  [val |-> Some(backup_path),
              fs |-> Put(fs, backup_path, fs[config_path[1]])]

create_backup(tag) ==
    /\ files' = create_backup_on(files, tag).fs
    /\ Returns("create_backup", <<tag>>,
               create_backup_on(files, tag).val # None,
               create_backup_on(files, tag).val)
    /\ UNCHANGED <<config_path, backup_dir, profiles_dir, current_config,
                   profile_files, host, now>>

\* glob("GameUserSettings_*.ini") in the backup directory
BackupFiles ==
    { p \in DOMAIN files :
        /\ backup_dir # None
        /\ parent(p) = backup_dir[1]
        /\ Len(name(p)) >= 4
        /\ SubSeq(name(p), 1, 2) = <<"GameUserSettings", "_">>
        /\ SubSeq(name(p), Len(name(p)) - 1, Len(name(p))) = <<".", "ini">> }

\* sorted(backups, key=date, reverse=True): any order of the directory's
\* entries in which the modification times do not increase
RECURSIVE Orders(_)
Orders(S) ==
    IF S = {} THEN { << >> }
    ELSE UNION { { <<x>> \o t : t \in Orders(S \ {x}) } : x \in S }

list_backups ==
    /\ \E l \in Orders(BackupFiles) :
          /\ \A i \in 1..(Len(l) - 1) :
                files[l[i]].mtime >= files[l[i + 1]].mtime
          /\ Returns("list_backups", << >>, TRUE, l)
    /\ UNCHANGED <<config_path, backup_dir, profiles_dir, current_config,
                   files, profile_files, host, now>>

restore_backup(backup_path) ==
    /\ IF ~exists(backup_path)
       THEN /\ UNCHANGED files
            /\ Returns("restore_backup", <<backup_path>>, FALSE, None)
       ELSE IF ~validate_path(backup_path)
       THEN /\ UNCHANGED files
            /\ Returns("restore_backup", <<backup_path>>, FALSE, None)
       ELSE LET saved == create_backup_on(files, <<"pre_restore">>).fs
            IN  IF config_path = None \/ backup_path = config_path[1]
                THEN \* shutil.copy2 raises (TypeError, SameFileError): caught
                     /\ files' = saved
                     /\ Returns("restore_backup", <<backup_path>>, FALSE, None)
                ELSE /\ files' = Put(saved, config_path[1], saved[backup_path])
                     /\ Returns("restore_backup", <<backup_path>>, TRUE, None)
    /\ UNCHANGED <<config_path, backup_dir, profiles_dir, current_config,
                   profile_files, host, now>>

-----------------------------------------------------------------------------
(* Profiles.  A profile file holds text that json.load parses or not; the  *)
(* parsed value is a JSON object or not; the object has a "config" member  *)
(* or not; that member is a document (an object of objects of strings) or  *)
(* a JSON value of another shape.                                          *)

AsciiLetters == {"a", "B"}
Digits == {"7"}
UnicodeLetters == {"U+00E9"}       \* e with acute accent

\* Python 3 str patterns: \w is every Unicode word character
IsWordChar(c) == c \in AsciiLetters \cup Digits \cup {"_"} \cup UnicodeLetters

\* the substitution with '.' kept as well: re.sub(r'[^\w\-.]', '_', name)
sanitize_keeping_dots(name_arg) ==
    [i \in 1..Len(name_arg) |->
        IF IsWordChar(name_arg[i]) \/ name_arg[i] \in {"-", "."}
        THEN name_arg[i] ELSE "_"]

\* re.sub(r'[^\w\-]', '_', name)
sanitize(name_arg) ==
    [i \in 1..Len(name_arg) |->
        IF IsWordChar(name_arg[i]) \/ name_arg[i] = "-" THEN name_arg[i] ELSE "_"]

profile_path_of(dir, name_arg) == Child(dir, sanitize(name_arg) \o <<".", "json">>)

\* a JSON value by its shape: "document" (an object of objects of strings),
\* "null", "number", "object" (another object)
JsonDocument(config) == [t |-> "document", v |-> config]

\* json.dump({'name': name, 'created': ..., 'config': config})
profile_data(name_arg, created, config) ==
    [json |-> TRUE, object |-> TRUE, name |-> Some(name_arg),
     created |-> Some(created), has_config |-> TRUE,
     config |-> JsonDocument(config)]

\* io: "ok", or "open" when opening the file for writing fails.  (json.dump
\* of a document of strings escapes every character and raises on no
\* document; a device that fails during the dump is not modelled.)
save_profile(name_arg, config, io) ==
    /\ IF profiles_dir = None
       THEN /\ UNCHANGED profile_files
            /\ Returns("save_profile", <<name_arg, config>>, FALSE, None)
       ELSE IF ~validate_path(profile_path_of(profiles_dir[1], name_arg))
       THEN /\ UNCHANGED profile_files
            /\ Returns("save_profile", <<name_arg, config>>, FALSE, None)
       ELSE IF io = "open"
       THEN /\ UNCHANGED profile_files
            /\ Returns("save_profile", <<name_arg, config>>, FALSE, None)
       ELSE /\ profile_files' =
                  Put(profile_files, profile_path_of(profiles_dir[1], name_arg),
                      profile_data(name_arg, timestamp, config))
            /\ Returns("save_profile", <<name_arg, config>>, TRUE, None)
    /\ UNCHANGED <<config_path, backup_dir, profiles_dir, current_config,
                   files, host, now>>

\* load_profile looking for the file under the name as given
load_profile_value_unsanitized(name_arg, io) ==
    IF profiles_dir = None THEN None
    ELSE LET profile_path == Child(profiles_dir[1], name_arg \o <<".", "json">>)
         IN  IF profile_path \notin DOMAIN profile_files THEN None
             ELSE LET data == profile_files[profile_path]
                  IN  IF io = "open" \/ ~data.json \/ ~data.object
                         \/ ~data.has_config
                      THEN None
                      ELSE IF data.config.t = "null" THEN None
                      ELSE Some(data.config)

\* json.load(f) then data.get('config'): None when the file cannot be
\* opened, the text is not JSON (JSONDecodeError), the value has no get
\* (AttributeError), it has no 'config', or its 'config' is null
load_profile_value(name_arg, io) ==
    IF profiles_dir = None THEN None
    ELSE LET profile_path == profile_path_of(profiles_dir[1], name_arg)
         IN  IF profile_path \notin DOMAIN profile_files THEN None
             ELSE LET data == profile_files[profile_path]
                  IN  IF io = "open" THEN None
                      ELSE IF ~data.json THEN None
                      ELSE IF ~data.object THEN None
                      ELSE IF ~data.has_config THEN None
                      ELSE IF data.config.t = "null" THEN None
                      ELSE Some(data.config)

load_profile(name_arg, io) ==
    /\ Returns("load_profile", <<name_arg>>,
               load_profile_value(name_arg, io) # None,
               load_profile_value(name_arg, io))
    /\ UNCHANGED <<config_path, backup_dir, profiles_dir, current_config,
                   files, profile_files, host, now>>

\* glob("*.json") in the profiles directory; files that do not parse are
\* skipped; data.get('name', f.stem), data.get('created', 'Unknown')
list_profiles_value ==
    IF profiles_dir = None THEN {}
    ELSE { [path |-> q,
            name |-> IF profile_files[q].name = None THEN stem(q)
                     ELSE profile_files[q].name[1],
            created |-> IF profile_files[q].created = None THEN <<"Unknown">>
                        ELSE profile_files[q].created[1]] :
           q \in { q \in DOMAIN profile_files :
                     /\ parent(q) = profiles_dir[1]
                     /\ profile_files[q].json
                     /\ profile_files[q].object } }

list_profiles ==
    /\ Returns("list_profiles", << >>, TRUE, <<list_profiles_value>>)
    /\ UNCHANGED <<config_path, backup_dir, profiles_dir, current_config,
                   files, profile_files, host, now>>

Remove(fs, p) == [q \in (DOMAIN fs) \ {p} |-> fs[q]]

\* io: "ok", or "unlink" when removing the file fails
delete_profile(name_arg, io) ==
    /\ IF profiles_dir = None
       THEN /\ UNCHANGED profile_files
            /\ Returns("delete_profile", <<name_arg>>, FALSE, None)
       ELSE IF profile_path_of(profiles_dir[1], name_arg) \in DOMAIN profile_files
               /\ io = "ok"
       THEN /\ profile_files' =
                  Remove(profile_files, profile_path_of(profiles_dir[1], name_arg))
            /\ Returns("delete_profile", <<name_arg>>, TRUE, None)
       ELSE /\ UNCHANGED profile_files
            /\ Returns("delete_profile", <<name_arg>>, FALSE, None)
    /\ UNCHANGED <<config_path, backup_dir, profiles_dir, current_config,
                   files, host, now>>


-----------------------------------------------------------------------------
(* The window, ArcTunerApp.  setting_widgets is the dict the window keeps: *)
(* definition.key -> the control of the definition and the value of its    *)
(* Tk variable, as var.get() returns it: a text for a StringVar, a boolean *)
(* for a BooleanVar, an integer for an IntVar.  A write to a variable runs *)
(* its trace, _on_setting_changed, which sets unsaved_changes.             *)

\* The presets whose settings are among the model's definitions, each with
\* those of its settings, in the order of the source.
PRESETS ==
    << << "Competitive",
          << << <<"DLSSMode">>, <<"Performance">> >>,
             << <<"FullscreenMode">>, <<"0">> >>,
             << <<"bUseVSync">>, <<"False">> >>,
             << <<"bEnableMouseSmoothing">>, <<"False">> >>,
             << <<"r.SceneColorFringe.Max">>, <<"0">> >> >> >>,
       << "Quality",
          << << <<"DLSSMode">>, <<"DLAA">> >>,
             << <<"FullscreenMode">>, <<"1">> >>,
             << <<"bUseVSync">>, <<"False">> >> >> >> >>

\* the keys under which SETTINGS_DEFINITIONS of the source registers a
\* definition, all of them
RegisteredKeys ==
    { <<"ResolutionScalingMethod">>, <<"DLSSMode">>, <<"DLSSModel">>,
      <<"XeSSMode">>, <<"FSR3Mode">>, <<"DLSSFrameGenerationMode">>,
      <<"FSR3FrameGenerationMode">>, <<"NvReflexMode">>,
      <<"ReflexLatewarpMode">>, <<"bAntiLag2Enabled">>, <<"RTXGIQuality">>,
      <<"RTXGIResolutionQuality">>, <<"FullscreenMode">>, <<"bUseVSync">>,
      <<"FrameRateLimit">>, <<"bUseHDRDisplayOutput">>,
      <<"MotionBlurEnabled">>, <<"LensDistortionEnabled">>,
      <<"sg.ViewDistanceQuality">>, <<"sg.ShadowQuality">>,
      <<"sg.TextureQuality">>, <<"sg.EffectsQuality">>,
      <<"sg.FoliageQuality">>, <<"sg.PostProcessQuality">>,
      <<"sg.ReflectionQuality">>, <<"sg.ShadingQuality">>,
      <<"sg.GlobalIlluminationQuality">>, <<"sg.AntiAliasingQuality">>,
      <<"sg.ResolutionQuality">>, <<"bEnableMouseSmoothing">>,
      <<"bViewAccelerationEnabled">>, <<"bEnableMouseSmoothing_Engine">>,
      <<"r.DepthOfFieldQuality">>, <<"r.BloomQuality">>,
      <<"r.LensFlareQuality">>, <<"r.SceneColorFringe.Max">>,
      <<"r.Tonemapper.Sharpen">>, <<"r.Tonemapper.GrainQuantization">>,
      <<"r.Vignette.Quality">>, <<"r.OneFrameThreadLag">>,
      <<"bSmoothFrameRate">>, <<"r.CreateShadersOnLoad">>,
      <<"r.Streaming.PoolSize">>, <<"r.MaxAnisotropy">>,
      <<"r.TextureStreaming">>, <<"AudioQualityLevel">>,
      <<"bEnableAudioSpatialisation">> }

\* PRESETS of the source, were one key of Balanced misspelt
preset_keys_misspelt ==
    << << "Competitive",
          { <<"DLSSMode">>, <<"DLSSFrameGenerationMode">>,
            <<"NvReflexMode">>, <<"RTXGIQuality">>,
            <<"RTXGIResolutionQuality">>, <<"FullscreenMode">>,
            <<"bUseVSync">>, <<"MotionBlurEnabled">>,
            <<"LensDistortionEnabled">>, <<"sg.FoliageQuality">>,
            <<"sg.ShadowQuality">>, <<"sg.EffectsQuality">>,
            <<"sg.PostProcessQuality">>, <<"sg.ViewDistanceQuality">>,
            <<"bEnableMouseSmoothing">>, <<"bViewAccelerationEnabled">>,
            <<"r.DepthOfFieldQuality">>, <<"r.BloomQuality">>,
            <<"r.LensFlareQuality">>, <<"r.SceneColorFringe.Max">>,
            <<"r.Tonemapper.GrainQuantization">>, <<"r.Vignette.Quality">>,
            <<"r.MaxAnisotropy">>, <<"AudioQualityLevel">>,
            <<"bEnableAudioSpatialisation">> } >>,
       << "Balanced",
          { <<"DLSSMode">>, <<"DLSSFrameGenerationMode">>,
            <<"NvReflexMode">>, <<"RTXGIQuality">>,
            <<"RTXGIResolutionQuality">>, <<"FullscreenMode">>,
            <<"bUseVSync">>, <<"MotionBlurEnabled">>,
            <<"LensDistortionEnabled">>, <<"sg.FoilageQuality">>,
            <<"sg.ShadowQuality">>, <<"sg.EffectsQuality">>,
            <<"sg.PostProcessQuality">>, <<"sg.ViewDistanceQuality">> } >>,
       << "Quality",
          { <<"DLSSMode">>, <<"DLSSFrameGenerationMode">>,
            <<"NvReflexMode">>, <<"RTXGIQuality">>,
            <<"RTXGIResolutionQuality">>, <<"FullscreenMode">>,
            <<"bUseVSync">>, <<"MotionBlurEnabled">>,
            <<"LensDistortionEnabled">>, <<"sg.FoliageQuality">>,
            <<"sg.ShadowQuality">>, <<"sg.EffectsQuality">>,
            <<"sg.PostProcessQuality">>, <<"sg.ViewDistanceQuality">> } >>,
       << "Cinematic",
          { <<"DLSSMode">>, <<"DLSSFrameGenerationMode">>,
            <<"NvReflexMode">>, <<"RTXGIQuality">>,
            <<"RTXGIResolutionQuality">>, <<"FullscreenMode">>,
            <<"bUseVSync">>, <<"MotionBlurEnabled">>,
            <<"LensDistortionEnabled">>, <<"sg.FoliageQuality">>,
            <<"sg.ShadowQuality">>, <<"sg.EffectsQuality">>,
            <<"sg.PostProcessQuality">>, <<"sg.ViewDistanceQuality">> } >> >>

\* the keys that the settings of each preset of the source name, all of
\* them
preset_keys ==
    << << "Competitive",
          { <<"DLSSMode">>, <<"DLSSFrameGenerationMode">>,
            <<"NvReflexMode">>, <<"RTXGIQuality">>,
            <<"RTXGIResolutionQuality">>, <<"FullscreenMode">>,
            <<"bUseVSync">>, <<"MotionBlurEnabled">>,
            <<"LensDistortionEnabled">>, <<"sg.FoliageQuality">>,
            <<"sg.ShadowQuality">>, <<"sg.EffectsQuality">>,
            <<"sg.PostProcessQuality">>, <<"sg.ViewDistanceQuality">>,
            <<"bEnableMouseSmoothing">>, <<"bViewAccelerationEnabled">>,
            <<"r.DepthOfFieldQuality">>, <<"r.BloomQuality">>,
            <<"r.LensFlareQuality">>, <<"r.SceneColorFringe.Max">>,
            <<"r.Tonemapper.GrainQuantization">>, <<"r.Vignette.Quality">>,
            <<"r.MaxAnisotropy">>, <<"AudioQualityLevel">>,
            <<"bEnableAudioSpatialisation">> } >>,
       << "Balanced",
          { <<"DLSSMode">>, <<"DLSSFrameGenerationMode">>,
            <<"NvReflexMode">>, <<"RTXGIQuality">>,
            <<"RTXGIResolutionQuality">>, <<"FullscreenMode">>,
            <<"bUseVSync">>, <<"MotionBlurEnabled">>,
            <<"LensDistortionEnabled">>, <<"sg.FoliageQuality">>,
            <<"sg.ShadowQuality">>, <<"sg.EffectsQuality">>,
            <<"sg.PostProcessQuality">>, <<"sg.ViewDistanceQuality">> } >>,
       << "Quality",
          { <<"DLSSMode">>, <<"DLSSFrameGenerationMode">>,
            <<"NvReflexMode">>, <<"RTXGIQuality">>,
            <<"RTXGIResolutionQuality">>, <<"FullscreenMode">>,
            <<"bUseVSync">>, <<"MotionBlurEnabled">>,
            <<"LensDistortionEnabled">>, <<"sg.FoliageQuality">>,
            <<"sg.ShadowQuality">>, <<"sg.EffectsQuality">>,
            <<"sg.PostProcessQuality">>, <<"sg.ViewDistanceQuality">> } >>,
       << "Cinematic",
          { <<"DLSSMode">>, <<"DLSSFrameGenerationMode">>,
            <<"NvReflexMode">>, <<"RTXGIQuality">>,
            <<"RTXGIResolutionQuality">>, <<"FullscreenMode">>,
            <<"bUseVSync">>, <<"MotionBlurEnabled">>,
            <<"LensDistortionEnabled">>, <<"sg.FoliageQuality">>,
            <<"sg.ShadowQuality">>, <<"sg.EffectsQuality">>,
            <<"sg.PostProcessQuality">>, <<"sg.ViewDistanceQuality">> } >> >>

\* the definitions of one category, in the catalog's order
OfCategory(category) ==
    LET listed == SelectSeq(SETTINGS_DEFINITIONS,
                            LAMBDA e : e[2].category = category)
    IN  [i \in 1..Len(listed) |-> listed[i][2]]

competitive_settings_definitions == OfCategory("Competitive Settings")

\* tk.StringVar(), tk.BooleanVar(), tk.IntVar()
NewVar(definition) ==
    CASE definition.setting_type = "boolean" -> BoolDefault(FALSE)
      [] definition.setting_type = "slider" -> IntDefault(0)
      [] OTHER -> StrDefault(<< >>)

Widget(definition, var) == [definition |-> definition, var |-> var]

\* widget._reverse_map.get(value, value): stored value -> label
reverse_map(definition, value) ==
    LET options == definition.options
    IN  IF \E i \in 1..Len(options) : options[i][1] = value
        THEN options[CHOOSE i \in 1..Len(options) : options[i][1] = value][2]
        ELSE value

\* _save_config, were the label of the combobox stored as it is
value_map_unmapped(definition, display_value) == display_value

\* widget._value_map.get(display_value, display_value): label -> stored
\* value; of two options with one label the later one is kept
value_map(definition, display_value) ==
    LET options == definition.options
        Labelled == { i \in 1..Len(options) : options[i][2] = display_value }
    IN  IF Labelled # {}
        THEN options[CHOOSE i \in Labelled : \A j \in Labelled : j <= i][1]
        ELSE display_value

\* int(float(value)) on the texts of the model: the integer, or the
\* exception raised
int_float(value) ==
    CASE value = <<"0">> -> [exc |-> "", n |-> 0]
      [] value = <<"50">> -> [exc |-> "", n |-> 50]
      [] value = <<"75">> -> [exc |-> "", n |-> 75]
      [] value = <<"100">> -> [exc |-> "", n |-> 100]
      [] value = <<"7.9">> -> [exc |-> "", n |-> 7]
      [] value = <<"inf">> -> [exc |-> "OverflowError", n |-> 0]
      [] OTHER -> [exc |-> "ValueError", n |-> 0]

\* _create_ui: one tab per category in the order the categories first
\* appear; every tab but Competitive Settings creates the control of each
\* of its definitions, the variable as Tk creates it.  The Competitive
\* Settings tab is built on the empty document and has no control.
create_ui ==
    LET definitions ==
            Concat([i \in 1..Len(SETTINGS_DEFINITIONS) |->
                LET category == SETTINGS_DEFINITIONS[i][2].category
                IN  IF \/ category = "Competitive Settings"
                       \/ \E j \in 1..(i - 1) :
                             SETTINGS_DEFINITIONS[j][2].category = category
                    THEN << >>
                    ELSE OfCategory(category)])
        Create(widgets, definition) ==
            DictSet(widgets, definition.key,
                    Widget(definition, NewVar(definition)))
    IN  Fold(Create, << >>, definitions)

\* _is_setting_in_config on the document `config`
is_setting_in_config(definition, config) ==
    /\ config # << >>
    /\ DictHas(config, definition.section)
    /\ DictHas(DictGet(config, definition.section, << >>), definition.key)

\* _refresh_competitive_settings_tab on the document `config`: the
\* controls of the competitive definitions are dropped, and each definition
\* that is in the config gets a fresh control showing get_setting of its
\* key field (_create_competitive_setting_widget).  The trace is added
\* after the variable is set.  exc: the exception that ends the refresh.
\* cards: per definition whose card is complete, whether the card has the
\* control and the Remove button (TRUE) or the Add button (FALSE).
refresh_competitive_settings_tab(widgets, config) ==
    LET Drop(ws, definition) == DictDel(ws, definition.key)
        Shown(definition) ==
            LET current_val == get_setting_of(config, definition.key)
                type == definition.setting_type
            IN  IF current_val = None \/ current_val[1] = << >>
                THEN [exc |-> "", var |-> NewVar(definition)]
                ELSE IF type = "choice"
                THEN [exc |-> "",
                      var |-> StrDefault(
                                  reverse_map(definition, current_val[1]))]
                ELSE IF type = "boolean"
                THEN [exc |-> "",
                      var |-> BoolDefault(lower(current_val[1]) = <<"true">>)]
                ELSE IF type = "number"
                THEN [exc |-> "", var |-> StrDefault(current_val[1])]
                ELSE IF int_float(current_val[1]).exc = "ValueError"
                THEN [exc |-> "", var |-> IntDefault(definition.default.n)]
                ELSE [exc |-> int_float(current_val[1]).exc,
                      var |-> IntDefault(int_float(current_val[1]).n)]
        Create(acc, definition) ==
            IF acc.exc # "" THEN acc
            ELSE IF ~is_setting_in_config(definition, config)
            THEN [acc EXCEPT !.cards = Append(acc.cards, FALSE)]
            ELSE IF Shown(definition).exc # ""
            THEN [acc EXCEPT !.exc = Shown(definition).exc]
            ELSE [acc EXCEPT
                     !.widgets =
                         DictSet(acc.widgets, definition.key,
                                 Widget(definition, Shown(definition).var)),
                     !.cards = Append(acc.cards, TRUE)]
    IN  Fold(Create,
             [exc |-> "",
              widgets |-> Fold(Drop, widgets,
                               competitive_settings_definitions),
              cards |-> << >>],
             competitive_settings_definitions)

\* _load_config when the config path is `path`.  An exception of the loop
\* or of the refresh ends the load where it is; the handler catches it.
\* (\E over a one-element set names a result that is computed once.)
load_config(op, arg, path) ==
    IF path = None \/ ~exists(path[1])
    THEN /\ UNCHANGED <<current_config, app, loaded>>
         /\ Returns(op, arg, FALSE, None)
    ELSE \E config \in { ParseConfig(files[path[1]].content) } :
         LET Show(acc, entry) ==
                 LET value == get_setting_of(config, entry[1])
                     definition == entry[2].definition
                     type == definition.setting_type
                     Set(var) ==
                         [acc EXCEPT
                             !.widgets = DictSet(acc.widgets, entry[1],
                                                 Widget(definition, var)),
                             !.written = TRUE]
                 IN  IF acc.exc # "" \/ value = None THEN acc
                     ELSE IF type = "choice"
                     THEN Set(StrDefault(reverse_map(definition, value[1])))
                     ELSE IF type = "boolean"
                     THEN Set(BoolDefault(lower(value[1]) = <<"true">>))
                     ELSE IF type = "number"
                     THEN Set(StrDefault(value[1]))
                     ELSE IF int_float(value[1]).exc = ""
                     THEN Set(IntDefault(int_float(value[1]).n))
                     ELSE IF int_float(value[1]).exc = "ValueError"
                     THEN \* var.set(str(definition.default)) on an IntVar
                          Set(IntDefault(definition.default.n))
                     ELSE [acc EXCEPT !.exc = int_float(value[1]).exc]
         IN  \E shown \in { Fold(Show,
                                  [exc |-> "", widgets |-> setting_widgets,
                                   written |-> FALSE],
                                  setting_widgets) } :
             /\ current_config' = config
             /\ loaded' = Some(files[path[1]].content)
             /\ IF shown.exc # ""
                THEN /\ setting_widgets' = shown.widgets
                     /\ unsaved_changes' = (unsaved_changes \/ shown.written)
                     /\ UNCHANGED competitive_cards
                     /\ Returns(op, arg, FALSE, None)
                ELSE \E tab \in { refresh_competitive_settings_tab(
                                      shown.widgets, config) } :
                     /\ setting_widgets' = tab.widgets
                     /\ unsaved_changes' = FALSE
                     /\ competitive_cards' = tab.cards
                     /\ Returns(op, arg, tab.exc = "", None)

\* The handlers of the window.  ret.ok: the handler did what it is for
\* (no error dialog, no refusal); ret.exc: the exception that left it.

\* _auto_detect_config, the last statement of __init__
auto_detect_config ==
    /\ steps = 0
    /\ config_path' = initialize_on(None).config_path
    /\ backup_dir' = initialize_on(None).backup_dir
    /\ profiles_dir' = initialize_on(None).profiles_dir
    /\ IF initialize_on(None).ok
       THEN load_config("auto_detect_config", << >>,
                        initialize_on(None).config_path)
       ELSE /\ UNCHANGED <<current_config, app, loaded>>
            /\ Returns("auto_detect_config", << >>, FALSE, None)
    /\ UNCHANGED <<files, profile_files, host, now>>

\* _browse_config: the file dialog returns filepath, empty when cancelled
browse_config(filepath) ==
    /\ IF filepath = None
       THEN /\ UNCHANGED <<config_path, backup_dir, profiles_dir,
                           current_config, app, loaded>>
            /\ Returns("browse_config", filepath, FALSE, None)
       ELSE /\ config_path' = initialize_on(filepath).config_path
            /\ backup_dir' = initialize_on(filepath).backup_dir
            /\ profiles_dir' = initialize_on(filepath).profiles_dir
            /\ IF initialize_on(filepath).ok
               THEN load_config("browse_config", filepath,
                                initialize_on(filepath).config_path)
               ELSE /\ UNCHANGED <<current_config, app, loaded>>
                    /\ Returns("browse_config", filepath, FALSE, None)
    /\ UNCHANGED <<files, profile_files, host, now>>

\* _reload_config: the question is asked when there are unsaved changes,
\* and confirm is the answer
reload_config(confirm) ==
    /\ unsaved_changes \/ confirm
    /\ IF unsaved_changes /\ ~confirm
       THEN /\ UNCHANGED <<current_config, app, loaded>>
            /\ Returns("reload_config", <<confirm>>, FALSE, None)
       ELSE load_config("reload_config", <<confirm>>, config_path)
    /\ UNCHANGED <<config_path, backup_dir, profiles_dir, files,
                   profile_files, host, now>>

\* _save_config, were the flag cleared whether or not the file was written
save_config_clearing(io) ==
    /\ IF config_path = None
       THEN /\ UNCHANGED <<current_config, files, unsaved_changes>>
            /\ Returns("save_config", << >>, FALSE, None)
       ELSE LET Store(config, entry) ==
                    LET definition == entry[2].definition
                        var == entry[2].var
                        value ==
                            IF definition.setting_type = "choice"
                            THEN value_map(definition, var.s)
                            ELSE str(var)
                    IN  IF DictHas(SETTINGS_DEFINITIONS, entry[1])
                        THEN set_setting_config(config, entry[1], value)
                        ELSE config
            IN  \E config \in
                       { Fold(Store, current_config, setting_widgets) } :
                \E written \in
                       { write_config_on(
                             create_backup_on(files, <<"pre_save">>).fs,
                             config, io, 0) } :
                /\ current_config' = config
                /\ files' = written.fs
                /\ unsaved_changes' = FALSE
                /\ Outcome("save_config", << >>, written.exc, written.ok,
                           None)
    /\ UNCHANGED <<config_path, backup_dir, profiles_dir, profile_files,
                   host, now, setting_widgets, competitive_cards, loaded>>

\* _save_config.  The backup is taken and every control's value is stored
\* in the document before the file is written; write_config's ValueError
\* is not caught.
save_config(io) ==
    /\ IF config_path = None
       THEN /\ UNCHANGED <<current_config, files, unsaved_changes>>
            /\ Returns("save_config", << >>, FALSE, None)
       ELSE LET Store(config, entry) ==
                    LET definition == entry[2].definition
                        var == entry[2].var
                        value ==
                            IF definition.setting_type = "choice"
                            THEN value_map(definition, var.s)
                            ELSE str(var)
                    IN  IF DictHas(SETTINGS_DEFINITIONS, entry[1])
                        THEN set_setting_config(config, entry[1], value)
                        ELSE config
            IN  \E config \in
                       { Fold(Store, current_config, setting_widgets) } :
                \E written \in
                       { write_config_on(
                             create_backup_on(files, <<"pre_save">>).fs,
                             config, io, 0) } :
                /\ current_config' = config
                /\ files' = written.fs
                /\ unsaved_changes' = (unsaved_changes /\ ~written.ok)
                /\ Outcome("save_config", << >>, written.exc, written.ok,
                           None)
    /\ UNCHANGED <<config_path, backup_dir, profiles_dir, profile_files,
                   host, now, setting_widgets, competitive_cards, loaded>>

\* _reset_to_defaults
reset_to_defaults(confirm) ==
    LET Reset(entry) ==
            LET definition == entry[2].definition
                default == definition.default
                type == definition.setting_type
            IN  << entry[1],
                   Widget(definition,
                       IF type = "choice"
                       THEN StrDefault(reverse_map(definition, str(default)))
                       ELSE IF type = "number" THEN StrDefault(str(default))
                       ELSE default) >>
    IN  /\ IF confirm
           THEN /\ setting_widgets' =
                       [i \in 1..Len(setting_widgets) |->
                           Reset(setting_widgets[i])]
                /\ unsaved_changes' =
                       (unsaved_changes \/ setting_widgets # << >>)
           ELSE UNCHANGED <<setting_widgets, unsaved_changes>>
        /\ Returns("reset_to_defaults", <<confirm>>, confirm, None)
        /\ UNCHANGED <<config_path, backup_dir, profiles_dir, current_config,
                       files, profile_files, host, now, competitive_cards,
                       loaded>>

\* _apply_preset, were a checkbutton toggled instead of set
apply_preset_toggling(preset_name, confirm) ==
    LET Apply(widgets, setting) ==
            IF ~DictHas(widgets, setting[1]) THEN widgets
            ELSE LET widget == DictGet(widgets, setting[1], << >>)
                     definition == widget.definition
                 IN  DictSet(widgets, setting[1],
                         Widget(definition,
                             IF definition.setting_type = "boolean"
                             THEN BoolDefault(~widget.var.b)
                             ELSE StrDefault(
                                      reverse_map(definition, setting[2]))))
    IN  /\ IF DictHas(PRESETS, preset_name) /\ confirm
           THEN /\ setting_widgets' =
                       Fold(Apply, setting_widgets,
                            DictGet(PRESETS, preset_name, << >>))
                /\ unsaved_changes' = TRUE
           ELSE UNCHANGED <<setting_widgets, unsaved_changes>>
        /\ Returns("apply_preset", <<preset_name, confirm>>,
                   DictHas(PRESETS, preset_name) /\ confirm, None)
        /\ UNCHANGED <<config_path, backup_dir, profiles_dir, current_config,
                       files, profile_files, host, now, competitive_cards,
                       loaded>>

\* _apply_preset, from the Presets menu.  No preset names a setting of
\* type number or slider; their variables would take the preset's text.
apply_preset(preset_name, confirm) ==
    LET Apply(widgets, setting) ==
            IF ~DictHas(widgets, setting[1]) THEN widgets
            ELSE LET definition == DictGet(widgets, setting[1], << >>).definition
                     type == definition.setting_type
                     value == setting[2]
                 IN  DictSet(widgets, setting[1],
                         Widget(definition,
                             IF type = "choice"
                             THEN StrDefault(reverse_map(definition, value))
                             ELSE IF type = "boolean"
                             THEN BoolDefault(lower(value) = <<"true">>)
                             ELSE IF type = "number" THEN StrDefault(value)
                             ELSE IntDefault(int_float(value).n)))
    IN  /\ IF DictHas(PRESETS, preset_name) /\ confirm
           THEN /\ setting_widgets' =
                       Fold(Apply, setting_widgets,
                            DictGet(PRESETS, preset_name, << >>))
                /\ unsaved_changes' = TRUE
           ELSE UNCHANGED <<setting_widgets, unsaved_changes>>
        /\ Returns("apply_preset", <<preset_name, confirm>>,
                   DictHas(PRESETS, preset_name) /\ confirm, None)
        /\ UNCHANGED <<config_path, backup_dir, profiles_dir, current_config,
                       files, profile_files, host, now, competitive_cards,
                       loaded>>

\* A control writes its variable, and the trace runs _on_setting_changed:
\* a label of the combobox, the checkbutton, a text typed in the entry, a
\* position of the scale.
on_setting_changed(key, value) ==
    /\ DictHas(setting_widgets, key)
    /\ LET definition == DictGet(setting_widgets, key, << >>).definition
           type == definition.setting_type
       IN  /\ CASE type = "choice" ->
                     /\ value.t = "str"
                     /\ \E i \in 1..Len(definition.options) :
                           definition.options[i][2] = value.s
                [] type = "boolean" -> value.t = "bool"
                [] type = "number" -> value.t = "str"
                [] type = "slider" -> value.t = "int"
           /\ setting_widgets' =
                  DictSet(setting_widgets, key, Widget(definition, value))
    /\ unsaved_changes' = TRUE
    /\ Returns("on_setting_changed", <<key, value>>, TRUE, None)
    /\ UNCHANGED <<config_path, backup_dir, profiles_dir, current_config,
                   files, profile_files, host, now, competitive_cards,
                   loaded>>

\* the document without the entry of the definition
Removed(config, definition) ==
    IF is_setting_in_config(definition, config)
    THEN DictSet(config, definition.section,
                 DictDel(DictGet(config, definition.section, << >>),
                         definition.key))
    ELSE config

\* the document with the entry of the definition at its default
Added(config, definition) ==
    DictSet(config, definition.section,
            DictSet(DictGet(config, definition.section, << >>),
                    definition.key, str(definition.default)))

\* what the four competitive handlers end with: the document is `config`
Refreshed(op, arg, config) ==
    \E tab \in { refresh_competitive_settings_tab(setting_widgets, config) } :
        /\ current_config' = config
        /\ unsaved_changes' = TRUE
        /\ setting_widgets' = tab.widgets
        /\ competitive_cards' = tab.cards
        /\ Outcome(op, arg, tab.exc, tab.exc = "", None)
        /\ UNCHANGED <<config_path, backup_dir, profiles_dir, files,
                       profile_files, host, now, loaded>>

\* _add_competitive_setting, the Add button of the i-th card
add_competitive_setting(i) ==
    /\ i \in 1..Len(competitive_cards) /\ ~competitive_cards[i]
    /\ Refreshed("add_competitive_setting", <<i>>,
                 Added(current_config, competitive_settings_definitions[i]))

\* _remove_competitive_setting, the Remove button of the i-th card
remove_competitive_setting(i) ==
    /\ i \in 1..Len(competitive_cards) /\ competitive_cards[i]
    /\ Refreshed("remove_competitive_setting", <<i>>,
                 Removed(current_config, competitive_settings_definitions[i]))

\* _add_all_competitive_settings
add_all_competitive_settings(confirm) ==
    LET Add(config, definition) ==
            IF is_setting_in_config(definition, config) THEN config
            ELSE Added(config, definition)
    IN  IF confirm
        THEN Refreshed("add_all_competitive_settings", <<confirm>>,
                       Fold(Add, current_config,
                            competitive_settings_definitions))
        ELSE /\ Returns("add_all_competitive_settings", <<confirm>>, FALSE,
                        None)
             /\ UNCHANGED <<config_path, backup_dir, profiles_dir,
                            current_config, files, profile_files, host, now,
                            app, loaded>>

\* _remove_all_competitive_settings
remove_all_competitive_settings(confirm) ==
    IF confirm
    THEN Refreshed("remove_all_competitive_settings", <<confirm>>,
                   Fold(Removed, current_config,
                        competitive_settings_definitions))
    ELSE /\ Returns("remove_all_competitive_settings", <<confirm>>, FALSE,
                    None)
         /\ UNCHANGED <<config_path, backup_dir, profiles_dir, current_config,
                        files, profile_files, host, now, app, loaded>>

-----------------------------------------------------------------------------
(* The world the manager starts in.                                        *)

Line(l) == l \o <<LF>>

OtherConfigPath ==
    << <<"D:">>, <<"Games">>, <<"Engine", ".", "ini">> >>
SystemConfigPath == << <<"etc">>, <<"game", ".", "ini">> >>

GameFile ==
    Line(<<"[">> \o <<"ScalabilityGroups">> \o <<"]">>)
    \o Line(<<"sg.ResolutionQuality", "=", "75">>)
    \o Line(<< >>)
    \o Line(<<"[", "Custom", "]">>)
    \o Line(<<"Foo", "=", "Bar">>)

OtherFile ==
    Line(<<"[">> \o Embark \o <<"]">>)
    \o Line(<<"DLSSMode", "=", "Balanced">>)

LinuxHost ==
    [dirs |-> { << <<"etc">> >>, << <<"usr">> >>, << <<"bin">> >> },
     links |-> << << << <<"bin">> >>, << <<"usr">>, <<"bin">> >> >> >>]

InitFiles ==
    { [p \in S |-> IF p = OtherConfigPath THEN File(OtherFile, 0)
                   ELSE File(GameFile, 0)] :
      S \in { {OtherConfigPath, SystemConfigPath},
              {OtherConfigPath, SystemConfigPath, DEFAULT_CONFIG_PATH} } }

ManagerInit ==
    /\ config_path = None
    /\ backup_dir = None
    /\ profiles_dir = None
    /\ current_config = << >>
    /\ ret = [op |-> "__init__", arg |-> << >>, exc |-> "", ok |-> TRUE,
              val |-> None]
    /\ steps = 0

\* ArcTunerApp.__init__ before the window is built
AppInit ==
    /\ setting_widgets = << >>
    /\ unsaved_changes = FALSE
    /\ competitive_cards = << >>

Init ==
    /\ ManagerInit
    /\ files \in InitFiles
    /\ profile_files = << >>
    /\ host = LinuxHost
    /\ now = 1
    /\ AppInit
    /\ history = << >>
    /\ loaded = None

-----------------------------------------------------------------------------
(* The calls a client of the manager makes.                                *)

SomeDocument ==
    << << Embark, << << <<"DLSSMode">>, <<"Performance">> >> >> >> >>

SettingKeys ==
    { <<"DLSSMode">>, <<"bEnableMouseSmoothing_Engine">>, <<"NoSuchSetting">> }
SettingValues == { <<"Performance">>, << >> }

Tick ==
    /\ now < MaxClock
    /\ now' = now + 1
    /\ UNCHANGED <<config_path, backup_dir, profiles_dir, current_config,
                   files, profile_files, host, ret, steps, app, observed>>


Initialize ==
    /\ steps < MaxSteps
    /\ \E path_arg \in {None, Some(OtherConfigPath), Some(SystemConfigPath)} :
          initialize(path_arg)
    /\ UNCHANGED <<app, observed>>

ReadConfig == steps < MaxSteps /\ read_config /\ UNCHANGED <<app, observed>>

WriteConfig ==
    /\ steps < MaxSteps
    /\ \E config \in {current_config, SomeDocument} :
          \E io \in {"ok", "open", "write"} :
             \E done \in 0..(IF io = "write" THEN Len(config) - 1 ELSE 0) :
                write_config(config, io, done)
    /\ UNCHANGED <<app, observed>>

CreateBackup ==
    /\ steps < MaxSteps
    /\ \E tag \in { << >>, <<"manual">> } : create_backup(tag)
    /\ UNCHANGED <<app, observed>>

ListBackups == steps < MaxSteps /\ list_backups /\ UNCHANGED <<app, observed>>

RestoreBackup ==
    /\ steps < MaxSteps
    /\ \E backup_path \in (DOMAIN files)
            \cup { << <<"D:">>, <<"Games">>, <<"Gone", ".", "ini">> >> } :
          restore_backup(backup_path)
    /\ UNCHANGED <<app, observed>>

GetSetting ==
    /\ steps < MaxSteps
    /\ \E key \in SettingKeys : get_setting(key)
    /\ UNCHANGED <<app, observed>>

SetSetting ==
    /\ steps < MaxSteps
    /\ \E key \in SettingKeys, value \in SettingValues : set_setting(key, value)
    /\ UNCHANGED <<app, observed>>


SaveProfile ==
    /\ steps < MaxSteps
    /\ \E io \in {"ok", "open"} :
          save_profile(<<"a", " ", "B">>, current_config, io)
    /\ UNCHANGED <<app, observed>>

LoadProfile ==
    /\ steps < MaxSteps
    /\ \E io \in {"ok", "open"} : load_profile(<<"a", " ", "B">>, io)
    /\ UNCHANGED <<app, observed>>

ListProfiles == steps < MaxSteps /\ list_profiles /\ UNCHANGED <<app, observed>>

DeleteProfile ==
    /\ steps < MaxSteps
    /\ \E io \in {"ok", "unlink"} : delete_profile(<<"a", " ", "B">>, io)
    /\ UNCHANGED <<app, observed>>

Next ==
    \/ Tick
    \/ Initialize
    \/ ReadConfig
    \/ WriteConfig
    \/ CreateBackup
    \/ ListBackups
    \/ RestoreBackup
    \/ GetSetting
    \/ SetSetting
    \/ SaveProfile
    \/ LoadProfile
    \/ ListProfiles
    \/ DeleteProfile

Spec == Init /\ [][Next]_vars


-----------------------------------------------------------------------------
(* Properties of the ConfigManager, checked under Spec.                    *)

Called(op) == steps' # steps /\ ret'.op = op

manager_state == <<config_path, backup_dir, profiles_dir, current_config>>

\* C2: for every catalog key and every string v, set_setting(key, v)
\* returns True, and a get_setting(key) that follows it at once returns v.
C2_SetThenGet ==
    [][ /\ (Called("set_setting") /\ DictHas(SETTINGS_DEFINITIONS, ret'.arg[1])
              => ret'.ok)
        /\ (ret.op = "set_setting" /\ DictHas(SETTINGS_DEFINITIONS, ret.arg[1])
              /\ Called("get_setting") /\ ret'.arg[1] = ret.arg[1]
              => ret'.val = Some(ret.arg[2])) ]_vars

\* get_setting has returned a value that only a set_setting stores
C2_Witness ==
    /\ ret.op = "get_setting"
    /\ ret.arg[1] = <<"bEnableMouseSmoothing_Engine">>
    /\ ret.val = Some(<<"Performance">>)

\* C4 (as claimed): every restore_backup that overwrites the live config
\* file has first created a backup tagged pre_restore holding the contents
\* the live file had before the overwrite.
C4_RestoreSnapshotsFirst ==
    [][ Called("restore_backup") /\ ret'.ok /\ exists(config_path[1])
        => /\ backup_dir # None
           /\ Child(backup_dir[1], backup_name(<<"pre_restore">>))
                 \in DOMAIN files'
           /\ files'[Child(backup_dir[1], backup_name(<<"pre_restore">>))].content
                 = files[config_path[1]].content ]_vars

\* C6 (as claimed): no operation raises: every call returns, and reports
\* a failure through its success flag or its absent result.
C6_NoOperationRaises == ret.exc = ""

FailingOperations ==
    {"initialize", "read_config", "write_config", "create_backup",
     "restore_backup", "save_profile", "load_profile", "delete_profile"}

\* C7 (as claimed): an operation that reports failure leaves config_path,
\* backup_dir, profiles_dir and current_config as they were.
C7_FailureKeepsState ==
    [][ steps' # steps /\ ret'.op \in FailingOperations /\ ~ret'.ok
        => manager_state' = manager_state ]_vars

\* C11: create_backup(tag) on an initialized manager whose config file
\* exists creates, in the backup directory, a file named after the stem of
\* the config file, <stem>_<timestamp>[_<tag>].ini, holding what the config
\* file holds, returns its path, and the backup directory then lists it.
C11_BackupNamedAfterConfig ==
    [][ (/\ steps' # steps /\ ret'.op = "create_backup"
         /\ config_path # None /\ backup_dir # None
         /\ exists(config_path[1]))
        => LET tag == ret'.arg[1]
               backup_path ==
                   Child(backup_dir[1],
                         stem(config_path[1]) \o <<"_">> \o timestamp
                         \o (IF tag # << >> THEN <<"_">> \o tag ELSE << >>)
                         \o <<".", "ini">>)
           IN  /\ ret'.val = Some(backup_path)
               /\ backup_path \in DOMAIN files'
               /\ files'[backup_path].content = files[config_path[1]].content
               /\ backup_path \in BackupFiles' ]_vars

\* the second at which a backup file was captured, as its name tells
CaptureTime(p) == CHOOSE t \in 0..(MaxClock + 1) : name(p)[3] = ToString(t)

\* C12: list_backups returns the backups by capture time, latest first: a
\* backup captured later never comes after one captured earlier; and it
\* returns the empty sequence when there is no backup directory.
C12_ListedByCaptureTime ==
    ret.op = "list_backups"
       => /\ \A i, j \in 1..Len(ret.val) :
                i < j => CaptureTime(ret.val[i]) >= CaptureTime(ret.val[j])
          /\ backup_dir = None => ret.val = << >>

InBackupDirectory(fs) ==
    { p \in DOMAIN fs :
        Len(p) >= 2 /\ name(parent(p)) = <<"ArcTuner_Backups">> }

\* C13: a backup file, once created, is never deleted and never
\* overwritten by a later operation, and every successful create_backup
\* adds one file to the backup files.
C13_BackupsKept ==
    [][ /\ \A p \in InBackupDirectory(files) :
              /\ p \in DOMAIN files'
              /\ files'[p].content = files[p].content
        /\ (steps' # steps /\ ret'.op = "create_backup" /\ ret'.ok)
              => Cardinality(InBackupDirectory(files'))
                    = Cardinality(InBackupDirectory(files)) + 1 ]_vars


-----------------------------------------------------------------------------
(* The round trip of a document through the config file: one write_config  *)
(* of a document, then one read_config, on a manager initialized on a      *)
(* path that passes validate_path.                                         *)

MaxSections == 2     \* sections of a document
MaxPairs == 2        \* key=value pairs of a document, all sections together

SectionNames == { <<"S">>, << >>, <<"S", LF>> }
KeyTexts == { <<"k">>, <<" ", "k">>, <<"k", "=", "x">>, <<"[", "k">> }
ValueTexts == { <<" ", "a", "=", "b", " ">>, <<"v", "]">> }

\* the dicts of n keys
PairSeqs(n) ==
    { l \in [1..n -> KeyTexts \X ValueTexts] :
        \A i, j \in 1..n : i # j => l[i][1] # l[j][1] }

\* the documents of at most k sections and at most b pairs
RECURSIVE DocumentsOf(_, _)
DocumentsOf(k, b) ==
    IF k = 0 THEN { << >> }
    ELSE { << >> } \cup
         UNION { UNION { { << <<a, l>> >> \o d :
                             d \in { e \in DocumentsOf(k - 1, b - n) :
                                       ~DictHas(e, a) } } :
                         l \in PairSeqs(n) } :
                 a \in SectionNames, n \in 0..b }

\* the manager after initialize(path) succeeded
Initialized(path) ==
    /\ config_path = Some(path)
    /\ backup_dir = Some(Child(parent(path), <<"ArcTuner_Backups">>))
    /\ profiles_dir = Some(Child(parent(path), <<"ArcTuner_Profiles">>))
    /\ current_config = << >>
    /\ ret = [op |-> "initialize", arg |-> Some(path), exc |-> "",
              ok |-> TRUE, val |-> None]
    /\ steps = 0

InitRT ==
    /\ Initialized(OtherConfigPath)
    /\ files = [p \in {OtherConfigPath} |-> File(OtherFile, 0)]
    /\ profile_files = << >>
    /\ host = LinuxHost
    /\ now = 1
    /\ AppInit
    /\ history = << >>
    /\ loaded = None

WriteDocument ==
    /\ steps = 0
    /\ \E d \in DocumentsOf(MaxSections, MaxPairs) : write_config(d, "ok", 0)
    /\ UNCHANGED <<app, observed>>

ReadBack ==
    /\ steps = 1
    /\ read_config
    /\ UNCHANGED <<app, observed>>

NextRT ==
    \/ WriteDocument
    \/ ReadBack

SpecRT == InitRT /\ [][NextRT]_vars

\* the (section, key, value) triples of a document, keys and values trimmed
Triples(d) ==
    UNION { { <<d[i][1], strip(d[i][2][j][1]), strip(d[i][2][j][2])>> :
                j \in 1..Len(d[i][2]) } : i \in 1..Len(d) }

\* a document the line format can hold
Representable(d) ==
    \A i \in 1..Len(d) :
       /\ Find(d[i][1], LF) = 0
       /\ d[i][2] # << >> => d[i][1] # << >>
       /\ \A j \in 1..Len(d[i][2]) :
             /\ Find(d[i][2][j][1], "=") = 0
             /\ Find(d[i][2][j][1], LF) = 0
             /\ Find(d[i][2][j][2], LF) = 0
             /\ ~(startswith(strip(d[i][2][j][1]), "[")
                    /\ endswith(strip(d[i][2][j][2]), "]"))
             /\ \A h \in 1..Len(d[i][2]) :
                   h # j => strip(d[i][2][h][1]) # strip(d[i][2][j][1])

\* C1 (as claimed): for every document d, write_config(d) followed by
\* read_config() returns a document with exactly the (section, key, value)
\* triples of d, keys and values compared after trimming.
C1_RoundTrip ==
    [][ ret.op = "write_config" /\ ret.ok /\ Called("read_config")
        => Triples(ret'.val[1]) = Triples(ret.arg[1]) ]_vars

\* C1 (amended): the same for every document the line format can hold: no
\* line break in a section name, key or value, no "=" in a key, no section
\* with keys under the empty name, no key starting with "[" whose value
\* ends with "]", no two keys of a section equal after trimming.
C1_RoundTripRepresentable ==
    [][ ret.op = "write_config" /\ ret.ok /\ Called("read_config")
           /\ Representable(ret.arg[1])
        => Triples(ret'.val[1]) = Triples(ret.arg[1]) ]_vars

\* a document with blanks around a key and around a value that holds "="
\* has been written and read back trimmed
C1_Witness ==
    /\ ret.op = "read_config"
    /\ files[OtherConfigPath].content =
          Serialize(<< << <<"S">>,
                          << << <<" ", "k">>, <<" ", "a", "=", "b", " ">> >>,
                             << <<"[", "k">>, <<" ", "a", "=", "b", " ">> >> >> >> >>)
    /\ ret.val =
          Some(<< << <<"S">>, << << <<"k">>, <<"a", "=", "b">> >>,
                                << <<"[", "k">>, <<"a", "=", "b">> >> >> >> >>)

-----------------------------------------------------------------------------
(* validate_path on the hosts and paths a caller can meet.                 *)


\* /bin a directory, /bin a link into /usr, /bin a link to a directory
\* outside the list, and a link from a temporary directory into /etc
HostLinks ==
    { << >>,
      << << << <<"bin">> >>, << <<"usr">>, <<"bin">> >> >> >>,
      << << << <<"bin">> >>, << <<"opt">>, <<"bin">> >> >> >>,
      << << << <<"tmp">>, <<"link">> >>, << <<"etc">> >> >> >> }

\* a link to /usr/bin is there (Path.exists follows it) when /usr is
Hosts ==
    { h \in [dirs : SUBSET { << <<"etc">> >>, << <<"usr">> >>, << <<"bin">> >>,
                             << <<"C:">>, <<"Windows">> >> },
             links : HostLinks] :
        (/\ DictHas(h.links, << <<"bin">> >>)
         /\ DictGet(h.links, << <<"bin">> >>, << >>)[1] = <<"usr">>)
           => (<< <<"bin">> >> \in h.dirs <=> << <<"usr">> >> \in h.dirs) }

PathArguments ==
    { << <<"etc">>, <<"game", ".", "ini">> >>,
      << <<"etc">> >>,
      << <<"usr">>, <<"bin">>, <<"game", ".", "ini">> >>,
      << <<"bin">>, <<"game", ".", "ini">> >>,
      << <<"opt">>, <<"bin">>, <<"game", ".", "ini">> >>,
      << <<"C:">>, <<"Windows">>, <<"win", ".", "ini">> >>,
      << <<"tmp">>, <<"link">>, <<"game", ".", "ini">> >>,
      << <<"tmp">>, <<"game", ".", "ini">> >>,
      << <<"tmp">>, <<"game", ".", "INI">> >>,
      << <<"tmp">>, <<"game", ".", "json">> >>,
      << <<"tmp">>, <<"game">> >>,
      << <<"tmp">>, <<".", "ini">> >>,
      << <<"tmp">>, <<"game", ".", "txt">> >>,
      << <<"tmp">>, <<"game", ".", "ini", ".", "bak">> >>,
      << <<"tmp">>, <<"ga", "NUL", "me", ".", "ini">> >> }

InitPath ==
    /\ ManagerInit
    /\ files = << >>
    /\ profile_files = << >>
    /\ host \in Hosts
    /\ now = 1
    /\ AppInit
    /\ history = << >>
    /\ loaded = None

ValidatePath ==
    /\ steps < MaxSteps
    /\ \E path \in PathArguments :
          Returns("validate_path", <<path>>, validate_path(path), None)
    /\ UNCHANGED <<config_path, backup_dir, profiles_dir, current_config,
                   files, profile_files, host, now, app, observed>>


SpecPath == InitPath /\ [][ValidatePath]_vars

\* the deny-listed directories that exist on the host, resolved
DeniedDirs ==
    { resolve(forbidden_paths[i])[1] :
        i \in { i \in 1..Len(forbidden_paths) :
                  forbidden_paths[i] \in host.dirs } }

ExtensionAllowed(p) == lower(suffix(p)) \in AllowedSuffixes

\* C5 (as claimed): validate_path(p) is False exactly when the resolved
\* form of p lies underneath a deny-listed directory that exists on the
\* host or the extension of p, case ignored, is none of .ini, .json and
\* empty; it never raises.
C5_ValidatePath ==
    ret.op = "validate_path" =>
       /\ ret.exc = ""
       /\ ret.ok = ~ \/ /\ resolve(ret.arg[1]) # None
                        /\ \E d \in DeniedDirs :
                              /\ IsPrefix(d, resolve(ret.arg[1])[1])
                              /\ d # resolve(ret.arg[1])[1]
                     \/ ~ExtensionAllowed(ret.arg[1])

\* C5 (amended): validate_path(p) is False exactly when p cannot be
\* resolved, or its resolved form is, or lies underneath, the resolved form
\* of a deny-listed directory that exists on the host, or the extension of
\* p, case ignored, is none of .ini, .json and empty; it never raises.
C5_ValidatePathResolved ==
    ret.op = "validate_path" =>
       /\ ret.exc = ""
       /\ ret.ok = ~ \/ resolve(ret.arg[1]) = None
                     \/ /\ resolve(ret.arg[1]) # None
                        /\ \E d \in DeniedDirs : IsPrefix(d, resolve(ret.arg[1])[1])
                     \/ ~ExtensionAllowed(ret.arg[1])

\* a path with an allowed extension that a link takes into /etc has been
\* rejected
C5_Witness ==
    /\ ret.op = "validate_path"
    /\ ret.arg[1] = << <<"tmp">>, <<"link">>, <<"game", ".", "ini">> >>
    /\ << <<"etc">> >> \in host.dirs
    /\ DictHas(host.links, << <<"tmp">>, <<"link">> >>)
    /\ ~ret.ok

-----------------------------------------------------------------------------
(* Profiles: save_profile, load_profile and delete_profile on an           *)
(* initialized manager, under names that sanitize to the same file name    *)
(* and names that do not, beside profile files edited by hand.             *)

ProfileNames == { <<"a", " ", "B">>, <<"a", "/", "B">>, <<"7">> }


\* what a hand-edited profile file can hold: text that is not JSON, a JSON
\* array, an object without "config", and objects whose "config" is null,
\* a number, or an object that is no document
EditedProfiles ==
    { [json |-> FALSE, object |-> FALSE, name |-> None, created |-> None,
       has_config |-> FALSE, config |-> [t |-> "null", v |-> << >>]],
      [json |-> TRUE, object |-> FALSE, name |-> None, created |-> None,
       has_config |-> FALSE, config |-> [t |-> "null", v |-> << >>]],
      [json |-> TRUE, object |-> TRUE, name |-> Some(<<"7">>), created |-> None,
       has_config |-> FALSE, config |-> [t |-> "null", v |-> << >>]],
      [json |-> TRUE, object |-> TRUE, name |-> None, created |-> None,
       has_config |-> TRUE, config |-> [t |-> "null", v |-> << >>]],
      [json |-> TRUE, object |-> TRUE, name |-> None, created |-> None,
       has_config |-> TRUE, config |-> [t |-> "number", v |-> <<"5">>]],
      [json |-> TRUE, object |-> TRUE, name |-> None, created |-> None,
       has_config |-> TRUE,
       config |-> [t |-> "object", v |-> << << <<"S">>, <<"x">> >> >>]] }

InitProfiles ==
    /\ Initialized(OtherConfigPath)
    /\ files = [p \in {OtherConfigPath} |-> File(OtherFile, 0)]
    /\ profile_files = << >>
    /\ host = LinuxHost
    /\ now = 1
    /\ AppInit
    /\ history = << >>
    /\ loaded = None

MaxHistory == 3      \* calls and edits logged in one behaviour

Recorded == Len(history) < MaxHistory /\ history' = Append(history, ret')

SaveNamed ==
    /\ \E name_arg \in ProfileNames, config \in { SomeDocument, << >> } :
          save_profile(name_arg, config, "ok")
    /\ Recorded
    /\ UNCHANGED <<app, loaded>>

LoadNamed ==
    /\ \E name_arg \in ProfileNames : load_profile(name_arg, "ok")
    /\ Recorded
    /\ UNCHANGED <<app, loaded>>

DeleteNamed ==
    /\ \E name_arg \in ProfileNames : delete_profile(name_arg, "ok")
    /\ Recorded
    /\ UNCHANGED <<app, loaded>>

\* the user, or another program, writes a profile file
EditProfileFile ==
    /\ Len(history) < MaxHistory
    /\ \E data \in EditedProfiles :
          /\ profile_files' =
                Put(profile_files, profile_path_of(profiles_dir[1], <<"7">>), data)
          /\ history' = Append(history,
                [op |-> "edit", arg |-> <<data>>, exc |-> "", ok |-> TRUE,
                 val |-> None])
    /\ UNCHANGED <<config_path, backup_dir, profiles_dir, current_config,
                   files, host, now, ret, steps, app, loaded>>

NextProfiles ==
    \/ SaveNamed
    \/ LoadNamed
    \/ DeleteNamed
    \/ EditProfileFile

SpecProfiles == InitProfiles /\ [][NextProfiles]_vars

\* the profile calls of the history that write or remove the file of a
\* name: successful saves and deletes under a name that sanitizes alike
Touches(e, name_arg) ==
    /\ \/ e.op = "save_profile" /\ e.ok
       \/ e.op = "delete_profile"
    /\ sanitize(e.arg[1]) = sanitize(name_arg)

\* what the first k calls leave stored under a name: the document of the
\* last successful save that no delete followed, or nothing
Stored(name_arg, k) ==
    IF \E i \in 1..k : Touches(history[i], name_arg)
    THEN LET i == CHOOSE i \in 1..k :
                     /\ Touches(history[i], name_arg)
                     /\ \A j \in (i + 1)..k : ~Touches(history[j], name_arg)
         IN  IF history[i].op = "save_profile"
             THEN Some(JsonDocument(history[i].arg[2]))
             ELSE None
    ELSE None

\* C8: after any sequence of save_profile and delete_profile calls on an
\* initialized manager, load_profile(name) returns the document of the
\* most recent successful save_profile under a name that sanitizes like
\* name, unless a delete_profile of such a name followed it, and not-found
\* otherwise; delete_profile succeeds exactly when that profile was stored.
C8_ProfileStore ==
    (\A i \in 1..Len(history) : history[i].op # "edit") =>
       \A k \in 1..Len(history) :
          /\ history[k].op = "load_profile"
                => history[k].val = Stored(history[k].arg[1], k - 1)
          /\ history[k].op = "delete_profile"
                => history[k].ok = (Stored(history[k].arg[1], k - 1) # None)

\* a profile saved under one name and overwritten under a name that
\* sanitizes alike has been loaded under the first name: the second
\* document came back
C8_Witness ==
    /\ Len(history) = 3
    /\ history[1].op = "save_profile" /\ history[1].arg = << <<"a", " ", "B">>, << >> >>
    /\ history[2].op = "save_profile"
    /\ history[2].arg = << <<"a", "/", "B">>, SomeDocument >>
    /\ history[3].op = "load_profile" /\ history[3].arg = << <<"a", " ", "B">> >>
    /\ history[3].val = Some(JsonDocument(SomeDocument))

\* C10 (as claimed): load_profile never raises and returns not-found or a
\* well-formed document; a file that does not hold a document yields
\* not-found.
C10_LoadWellFormed ==
    ret.op = "load_profile" =>
       /\ ret.exc = ""
       /\ ret.val = None \/ ret.val[1].t = "document"

-----------------------------------------------------------------------------
(* The file name of a profile: one save_profile under a name, then one     *)
(* load_profile and one delete_profile under the same name.                *)

MaxNameLen == 2      \* characters of a profile name

NameChars == AsciiLetters \cup Digits \cup UnicodeLetters
                \cup {"_", "-", " ", "/", "."}

NamesUpTo(n) == UNION { [1..m -> NameChars] : m \in 0..n }

SaveAs ==
    /\ steps = 0
    /\ \E name_arg \in NamesUpTo(MaxNameLen) :
          save_profile(name_arg, SomeDocument, "ok")
    /\ UNCHANGED <<app, observed>>

LoadAs ==
    /\ steps = 1
    /\ load_profile(ret.arg[1], "ok")
    /\ UNCHANGED <<app, observed>>

DeleteAs ==
    /\ steps = 2
    /\ delete_profile(ret.arg[1], "ok")
    /\ UNCHANGED <<app, observed>>

NextNames ==
    \/ SaveAs
    \/ LoadAs
    \/ DeleteAs

SpecNames == InitProfiles /\ [][NextNames]_vars

\* the profile file of a name when the characters of Kept are left as they
\* are and every other character becomes "_"
ProfileFileKeeping(Kept, name_arg) ==
    Child(profiles_dir[1],
          [i \in 1..Len(name_arg) |->
              IF name_arg[i] \in Kept THEN name_arg[i] ELSE "_"]
          \o <<".", "json">>)

\* save_profile has written, load_profile has found and delete_profile has
\* removed the file that Kept gives for the name, and no other file
NamedKeeping(Kept) ==
    /\ ret.op = "save_profile"
          => /\ ret.ok
             /\ DOMAIN profile_files = {ProfileFileKeeping(Kept, ret.arg[1])}
    /\ ret.op = "load_profile"
          => /\ DOMAIN profile_files = {ProfileFileKeeping(Kept, ret.arg[1])}
             /\ ret.val = Some(JsonDocument(SomeDocument))
    /\ ret.op = "delete_profile"
          => /\ ret.ok
             /\ profile_files = << >>

\* C9 (as claimed): the three operations name the profile file by replacing
\* every character outside [A-Za-z0-9_-] with "_" and keeping the others,
\* so that the file name is made of [A-Za-z0-9_-] followed by .json.
C9_AsciiFileName == NamedKeeping(AsciiLetters \cup Digits \cup {"_", "-"})

\* C9 (amended): the three operations name the profile file by replacing
\* every character that is neither a Unicode word character (a letter or
\* digit of any script, or "_") nor "-" with "_" and keeping the others.
C9_WordCharFileName ==
    NamedKeeping({ c \in NameChars : IsWordChar(c) } \cup {"-"})

\* a name with a blank and a dot has been saved, loaded and deleted
C9_Witness ==
    /\ ret.op = "delete_profile"
    /\ ret.arg[1] = <<" ", ".">>
    /\ ret.ok

\* save of _save_profile_dialog, the name typed not blank: every control's
\* value is stored in the document, and the document is saved as the profile
save_profile_dialog(name_arg) ==
    LET Store(config, entry) ==
            LET definition == entry[2].definition
                var == entry[2].var
                value == IF definition.setting_type = "choice"
                         THEN value_map(definition, var.s)
                         ELSE str(var)
            IN  IF DictHas(SETTINGS_DEFINITIONS, entry[1])
                THEN set_setting_config(config, entry[1], value)
                ELSE config
    IN  \E config \in { Fold(Store, current_config, setting_widgets) } :
        /\ current_config' = config
        /\ IF /\ profiles_dir # None
              /\ validate_path(profile_path_of(profiles_dir[1], name_arg))
           THEN /\ profile_files' =
                      Put(profile_files,
                          profile_path_of(profiles_dir[1], name_arg),
                          profile_data(name_arg, timestamp, config))
                /\ Returns("save_profile_dialog", <<name_arg>>, TRUE, None)
           ELSE /\ UNCHANGED profile_files
                /\ Returns("save_profile_dialog", <<name_arg>>, FALSE, None)
        /\ UNCHANGED <<config_path, backup_dir, profiles_dir, files, host,
                       now, app, loaded>>

\* load_selected of _load_profile_dialog on a profile of the list.  The
\* profile files of the window are the ones its save wrote, so the config
\* of a profile is a document; an empty one is not loaded.  A ValueError of
\* the conversion leaves the control as it is; any other exception leaves
\* the handler.  The Competitive Settings tab is not refreshed.
load_selected(name_arg) ==
    /\ \E profile \in list_profiles_value : profile.name = name_arg
    /\ LET config == load_profile_value(name_arg, "ok")
           Show(acc, entry) ==
               LET value == get_setting_of(config[1].v, entry[1])
                   definition == entry[2].definition
                   type == definition.setting_type
                   Set(var) ==
                       [acc EXCEPT
                           !.widgets = DictSet(acc.widgets, entry[1],
                                               Widget(definition, var)),
                           !.written = TRUE]
               IN  IF acc.exc # "" \/ value = None THEN acc
                   ELSE IF type = "choice"
                   THEN Set(StrDefault(reverse_map(definition, value[1])))
                   ELSE IF type = "boolean"
                   THEN Set(BoolDefault(lower(value[1]) = <<"true">>))
                   ELSE IF type = "number"
                   THEN Set(StrDefault(value[1]))
                   ELSE IF int_float(value[1]).exc = ""
                   THEN Set(IntDefault(int_float(value[1]).n))
                   ELSE IF int_float(value[1]).exc = "ValueError"
                   THEN acc
                   ELSE [acc EXCEPT !.exc = int_float(value[1]).exc]
       IN  IF config = None \/ config[1].v = << >>
           THEN /\ UNCHANGED <<current_config, setting_widgets,
                               unsaved_changes>>
                /\ Returns("load_selected", <<name_arg>>, FALSE, None)
           ELSE \E shown \in { Fold(Show,
                                    [exc |-> "", widgets |-> setting_widgets,
                                     written |-> FALSE],
                                    setting_widgets) } :
                /\ current_config' = config[1].v
                /\ setting_widgets' = shown.widgets
                /\ IF shown.exc # ""
                   THEN /\ unsaved_changes' =
                              (unsaved_changes \/ shown.written)
                        /\ Raises("load_selected", <<name_arg>>, shown.exc)
                   ELSE /\ unsaved_changes' = TRUE
                        /\ Returns("load_selected", <<name_arg>>, TRUE, None)
    /\ UNCHANGED <<config_path, backup_dir, profiles_dir, files,
                   profile_files, host, now, competitive_cards, loaded>>

-----------------------------------------------------------------------------
(* The window at work: it is built, looks for the config file at the       *)
(* default place, and the user then works its menus, controls and buttons. *)

MaxActions == 3      \* handlers run, the start-up detection included

\* a config file with a key that is on two lines of one section
ArrayFile ==
    Line(<<"[", "Custom", "]">>)
    \o Line(<<"+Paths", "=", "a">>)
    \o Line(<<"+Paths", "=", "b">>)
    \o Line(<< >>)
    \o Line(<<"[">> \o Embark \o <<"]">>)
    \o Line(<<"DLSSMode", "=", "Balanced">>)

\* a config file with competitive settings
TunedFile ==
    Line(<<"[", "/Script/Engine.InputSettings", "]">>)
    \o Line(<<"bEnableMouseSmoothing", "=", "True">>)
    \o Line(<<"[", "SystemSettings", "]">>)
    \o Line(<<"r.Tonemapper.Sharpen", "=", "7.9">>)
    \o Line(<<"r.MyTweak", "=", "1">>)

\* a config file edited by hand: a frame rate limit that is no number and
\* a resolution scale that float() reads as infinity
EditedFile ==
    Line(<<"[">> \o Embark \o <<"]">>)
    \o Line(<<"FrameRateLimit", "=", "abc">>)
    \o Line(<<"[", "ScalabilityGroups", "]">>)
    \o Line(<<"sg.ResolutionQuality", "=", "inf">>)

AppFiles ==
    { [p \in S |-> IF p = DEFAULT_CONFIG_PATH THEN File(f, 0)
                   ELSE File(GameFile, 0)] :
      S \in { {OtherConfigPath, SystemConfigPath},
              {OtherConfigPath, SystemConfigPath, DEFAULT_CONFIG_PATH} },
      f \in {ArrayFile, TunedFile, EditedFile} }

\* ArcTunerApp.__init__ up to its last statement: the manager is new, the
\* window is built, and nothing is loaded
InitApp ==
    /\ ManagerInit
    /\ files \in AppFiles
    /\ profile_files = << >>
    /\ host = LinuxHost
    /\ now = 1
    /\ setting_widgets = create_ui
    /\ unsaved_changes = FALSE
    /\ competitive_cards =
           refresh_competitive_settings_tab(create_ui, << >>).cards
    /\ history = << >>
    /\ loaded = None

Started == 1 <= steps /\ steps < MaxActions

ControlValues ==
    { StrDefault(<<"60">>), StrDefault(<<"Performance">>),
      StrDefault(<<"Windowed">>), StrDefault(<<"Low">>),
      BoolDefault(TRUE), IntDefault(50) }

NextApp ==
    \/ Tick
    \/ auto_detect_config /\ Recorded
    \/ Started /\ \E filepath \in { None, Some(OtherConfigPath),
                                   Some(SystemConfigPath),
                                   Some(DEFAULT_CONFIG_PATH) } :
                      browse_config(filepath) /\ Recorded
    \/ Started /\ \E confirm \in BOOLEAN : reload_config(confirm) /\ Recorded
    \/ Started /\ \E io \in {"ok", "open", "write"} : save_config(io) /\ Recorded
    \/ Started /\ \E confirm \in BOOLEAN : reset_to_defaults(confirm) /\ Recorded
    \/ Started /\ \E preset_name \in DictKeys(PRESETS), confirm \in BOOLEAN :
                      apply_preset(preset_name, confirm) /\ Recorded
    \/ Started /\ \E key \in DictKeys(setting_widgets),
                     value \in ControlValues :
                      on_setting_changed(key, value) /\ Recorded
    \/ Started /\ \E i \in 1..Len(competitive_cards) :
                      add_competitive_setting(i) /\ Recorded
    \/ Started /\ \E i \in 1..Len(competitive_cards) :
                      remove_competitive_setting(i) /\ Recorded
    \/ Started /\ \E confirm \in BOOLEAN :
                      add_all_competitive_settings(confirm) /\ Recorded
    \/ Started /\ \E confirm \in BOOLEAN :
                      remove_all_competitive_settings(confirm) /\ Recorded
    \/ Started /\ save_profile_dialog(<<"a">>) /\ Recorded
    \/ Started /\ load_selected(<<"a">>) /\ Recorded

SpecApp == InitApp /\ [][NextApp]_vars

\* The Key=Value lines of a file's text that stand under a [Section] header
\* with a name, each with its section, and of them the ones whose key is
\* not in the catalog.
RECURSIVE PairLines(_, _)
PairLines(lines, section) ==
    IF lines = << >> THEN {}
    ELSE LET l == strip(Head(lines))
         IN  IF startswith(l, "[") /\ endswith(l, "]")
             THEN PairLines(Tail(lines), SubSeq(l, 2, Len(l) - 1))
             ELSE (IF Find(l, "=") # 0 /\ section # << >>
                   THEN { << section, strip(partition(l, "=")[1]),
                             strip(partition(l, "=")[2]) >> }
                   ELSE {})
                  \cup PairLines(Tail(lines), section)

UnknownPairs(text) ==
    { t \in PairLines(SplitLines(text), << >>) : t[2] \notin CatalogKeys }

\* C3: once a config file is loaded, a successful save, whatever edits,
\* presets, resets and competitive additions and removals came before it,
\* writes a file that still has, under the same section and with the same
\* value, every Key=Value line of the loaded file whose key is not in the
\* catalog.
C3_SaveKeepsUnknownPairs ==
    [][(ret'.op = "save_config" /\ ret'.ok /\ loaded # None)
          => UnknownPairs(loaded[1])
                \subseteq UnknownPairs(files'[config_path[1]].content)]_vars


\* C14: when a known preset is applied and confirmed and the configuration
\* is then saved with success, every (key, value) pair of the preset is
\* stored in the document under the section of the key's definition, and
\* every key the document had before the save is still in its section.
C14_PresetStored ==
    [][ (/\ steps' # steps
         /\ ret.op = "apply_preset" /\ ret.ok
         /\ ret'.op = "save_config" /\ ret'.ok)
        => LET settings == DictGet(PRESETS, ret.arg[1], << >>)
           IN  /\ \A i \in 1..Len(settings) :
                     LET key == settings[i][1]
                         definition ==
                             DictGet(SETTINGS_DEFINITIONS, key, << >>)
                         section_config ==
                             DictGet(current_config', definition.section,
                                     << >>)
                     IN  /\ DictHas(section_config, key)
                         /\ DictGet(section_config, key, << >>)
                                = settings[i][2]
               /\ \A section \in DictKeys(current_config) :
                     /\ DictHas(current_config', section)
                     /\ DictKeys(DictGet(current_config, section, << >>))
                           \subseteq
                        DictKeys(DictGet(current_config', section, << >>))
      ]_vars


\* C15: applying a preset a second time, right after it was applied and
\* confirmed, leaves every control's value and the document as the first
\* application left them.
C15_PresetTwiceIsOnce ==
    [][ (/\ steps' # steps
         /\ ret.op = "apply_preset" /\ ret.ok
         /\ ret'.op = "apply_preset" /\ ret'.ok
         /\ ret'.arg = ret.arg)
        => /\ setting_widgets' = setting_widgets
           /\ current_config' = current_config ]_vars

\* a preset was applied twice in a row on a loaded document whose upscaling
\* mode is not the preset's
C15_AppliedTwice ==
    /\ Len(history) = 3
    /\ history[1].op = "auto_detect_config" /\ history[1].ok
    /\ history[2].op = "apply_preset" /\ history[2].ok
    /\ history[3] = history[2]
    /\ str(DictGet(setting_widgets, <<"DLSSMode">>, << >>).var)
          # get_setting_value(<<"DLSSMode">>)[1]


\* C16: every definition of the catalog is registered under the key that
\* its own key field names, the field is not empty, and no two definitions
\* have the same key field; so every control the window keeps is the
\* control of the definition registered under the control's key.
C16_RegisteredUnderOwnKey ==
    /\ \A i \in 1..Len(SETTINGS_DEFINITIONS) :
          /\ SETTINGS_DEFINITIONS[i][2].key # << >>
          /\ SETTINGS_DEFINITIONS[i][2].key = SETTINGS_DEFINITIONS[i][1]
    /\ \A i, j \in 1..Len(SETTINGS_DEFINITIONS) :
          SETTINGS_DEFINITIONS[i][2].key = SETTINGS_DEFINITIONS[j][2].key
             => i = j
    /\ \A i \in 1..Len(setting_widgets) :
          setting_widgets[i][2].definition
             = DictGet(SETTINGS_DEFINITIONS, setting_widgets[i][1], << >>)


\* C17: every key that the settings of a preset name is a key under which
\* the catalog registers a definition; so is every key of the preset that
\* was applied last.
C17_PresetKeysInCatalog ==
    /\ \A i \in 1..Len(preset_keys) : preset_keys[i][2] \subseteq RegisteredKeys
    /\ DictKeys(SETTINGS_DEFINITIONS) \subseteq RegisteredKeys
    /\ (ret.op = "apply_preset" /\ ret.ok)
          => /\ DictKeys(DictGet(PRESETS, ret.arg[1], << >>))
                   \subseteq DictGet(preset_keys, ret.arg[1], {})
             /\ DictKeys(DictGet(PRESETS, ret.arg[1], << >>))
                   \subseteq DictKeys(SETTINGS_DEFINITIONS)

\* the Competitive preset was applied to a loaded document and set the
\* upscaling mode
C17_PresetApplied ==
    /\ ret.op = "apply_preset" /\ ret.ok /\ ret.arg[1] = "Competitive"
    /\ loaded # None
    /\ DictGet(setting_widgets, <<"DLSSMode">>, << >>).var
          = StrDefault(<<"Performance">>)


\* the values a document holds for a key in a section
StoredValues(config, section, key) ==
    UNION { { config[s][2][k][2] :
                k \in { k \in 1..Len(config[s][2]) :
                          config[s][2][k][1] = key } } :
            s \in { s \in 1..Len(config) : config[s][1] = section } }

\* C18: get_setting(key) for a key of the catalog raises nothing and
\* returns the value the current document holds for that key in the section
\* of the key's definition, or, when the document holds none, the default
\* of the definition as str() writes it; for any other key it returns None.
C18_GetSetting ==
    ret.op = "get_setting" =>
       LET key == ret.arg[1]
           Registered == { i \in 1..Len(SETTINGS_DEFINITIONS) :
                             SETTINGS_DEFINITIONS[i][1] = key }
       IN  /\ ret.exc = ""
           /\ Registered = {} => ret.val = None
           /\ \A i \in Registered :
                 LET definition == SETTINGS_DEFINITIONS[i][2]
                     Held == StoredValues(current_config,
                                            definition.section, key)
                 IN  /\ \A value \in Held : ret.val = Some(value)
                     /\ Held = {}
                           => ret.val = Some(str(definition.default))

\* get_setting has answered with a default that is not a text, for a key
\* the loaded document does not hold
C18_DefaultReturned ==
    /\ ret.op = "get_setting"
    /\ ret.arg[1] = <<"bEnableMouseSmoothing_Engine">>
    /\ ret.val = Some(<<"False">>)
    /\ current_config # << >>


\* The names of the [Name] headers among the lines of a text, and the
\* Key=Value lines that follow a header, each with the name of the last
\* header before it, its key and its value.  `header` is the last header
\* met, None before the first.
HeaderNames(lines) ==
    { SubSeq(strip(lines[i]), 2, Len(strip(lines[i])) - 1) :
        i \in { i \in 1..Len(lines) :
                  /\ startswith(strip(lines[i]), "[")
                  /\ endswith(strip(lines[i]), "]") } }

RECURSIVE PairsUnder(_, _)
PairsUnder(lines, header) ==
    IF lines = << >> THEN {}
    ELSE LET l == strip(Head(lines))
         IN  IF startswith(l, "[") /\ endswith(l, "]")
             THEN PairsUnder(Tail(lines), Some(SubSeq(l, 2, Len(l) - 1)))
             ELSE (IF Find(l, "=") # 0 /\ header # None
                   THEN { << header[1], strip(partition(l, "=")[1]),
                             strip(partition(l, "=")[2]) >> }
                   ELSE {})
                  \cup PairsUnder(Tail(lines), header)

\* C19: the document that read_config returns for a file, as the window
\* has it after a load, has exactly the sections whose [Name] headers are
\* in the file, and each section holds exactly the Key=Value lines that
\* follow its header, key and value trimmed and split at the first "=".
C19_ReadConfigExact ==
    (/\ ret.op \in {"auto_detect_config", "browse_config", "reload_config"}
     /\ ret.ok)
       => LET lines == SplitLines(loaded[1])
          IN  /\ DictKeys(current_config) = HeaderNames(lines)
              /\ { << current_config[s][1], current_config[s][2][k][1],
                      current_config[s][2][k][2] >> :
                      << s, k >> \in
                         { x \in (1..Len(current_config)) \X (1..Len(lines)) :
                             x[2] <= Len(current_config[x[1]][2]) } }
                    = PairsUnder(lines, None)


\* C20: a load that reads the config file ends without an exception, and
\* leaves in every control of type number or slider the stored string as
\* int(float(...)) converts it, or the default of the definition when the
\* string cannot be converted.
C20_NumbersConverted ==
    [][ (/\ steps' # steps
         /\ ret'.op \in {"auto_detect_config", "browse_config",
                         "reload_config"}
         /\ ret'.op = "browse_config" => ret'.arg # None
         /\ ret'.op = "reload_config" => ~unsaved_changes \/ ret'.arg[1]
         /\ config_path' # None
         /\ exists(config_path'[1]))
        => /\ ret'.exc = "" /\ ret'.ok
           /\ \A i \in 1..Len(setting_widgets') :
                 LET definition == setting_widgets'[i][2].definition
                     var == setting_widgets'[i][2].var
                     value == get_setting_of(current_config',
                                             setting_widgets'[i][1])
                     number == IF int_float(value[1]).exc = ""
                               THEN IntDefault(int_float(value[1]).n)
                               ELSE definition.default
                 IN  (/\ value # None
                      /\ definition.setting_type \in {"number", "slider"})
                        => IF definition.setting_type = "slider"
                           THEN var = number
                           ELSE var = StrDefault(str(number)) ]_vars


\* C22: whenever backup_dir and profiles_dir are set, they are the
\* directories ArcTuner_Backups and ArcTuner_Profiles beside the file that
\* config_path names.
C22_DirectoriesBesideConfig ==
    /\ backup_dir # None
          => /\ config_path # None
             /\ backup_dir = Some(Child(parent(config_path[1]),
                                        <<"ArcTuner_Backups">>))
    /\ profiles_dir # None
          => /\ config_path # None
             /\ profiles_dir = Some(Child(parent(config_path[1]),
                                          <<"ArcTuner_Profiles">>))

\* C23: a write_config or restore_backup that writes the file config_path
\* names has checked that path with validate_path in the same call, and the
\* check returned True.
C23_WritesValidated ==
    [][ (/\ steps' # steps
         /\ ret'.op \in {"write_config", "restore_backup"}
         /\ config_path # None
         /\ config_path[1] \in DOMAIN files'
         /\ \/ ret'.ok
            \/ config_path[1] \notin DOMAIN files
            \/ files'[config_path[1]] # files[config_path[1]])
        => validate_path(config_path[1]) ]_vars

\* C24: a write_config that reports failure leaves the config file on disk
\* holding what it held before the call.
C24_FailedWriteKeepsFile ==
    [][ (/\ Called("write_config") /\ ~ret'.ok
         /\ config_path # None
         /\ config_path[1] \in DOMAIN files)
        => /\ config_path[1] \in DOMAIN files'
           /\ files'[config_path[1]].content
                 = files[config_path[1]].content ]_vars

-----------------------------------------------------------------------------
(* The two conversions of a choice control on their own: a stored string   *)
(* that get_setting returned is shown (_load_config), and what is shown is *)
(* stored again (_save_config).                                            *)

InitCodec ==
    /\ config_path = None
    /\ backup_dir = None
    /\ profiles_dir = None
    /\ current_config = << >>
    /\ files = << >>
    /\ profile_files = << >>
    /\ host = LinuxHost
    /\ now = 1
    /\ steps = 0
    /\ AppInit
    /\ history = << >>
    /\ loaded = None
    /\ \E i \in 1..Len(SETTINGS_DEFINITIONS) :
          /\ SETTINGS_DEFINITIONS[i][2].setting_type = "choice"
          /\ \E value \in
                  { << >>, <<"x">>, <<"Quality">>, <<"Performance">>,
                    <<"0">>, <<"1">>, <<"2">>, <<"0.5">>, <<"3">>,
                    <<"Windowed">>, <<"Borderless Windowed">>,
                    <<"Exclusive Fullscreen">>, <<"Low">>, <<"Full">>,
                    <<"Off (Competitive)">>, <<"windowed">> } :
                ret = [op |-> "get_setting",
                       arg |-> <<SETTINGS_DEFINITIONS[i][1]>>,
                       exc |-> "", ok |-> TRUE, val |-> Some(value)]

NextCodec ==
    \/ /\ ret.op = "get_setting"
       /\ Returns("reverse_map", <<ret.arg[1], ret.val[1]>>, TRUE,
                  Some(reverse_map(
                           DictGet(SETTINGS_DEFINITIONS, ret.arg[1], << >>),
                           ret.val[1])))
       /\ Recorded
       /\ UNCHANGED <<config_path, backup_dir, profiles_dir, current_config,
                      files, profile_files, host, now, app, loaded>>
    \/ /\ ret.op = "reverse_map"
       /\ Returns("value_map", <<ret.arg[1], ret.val[1]>>, TRUE,
                  Some(value_map(
                           DictGet(SETTINGS_DEFINITIONS, ret.arg[1], << >>),
                           ret.val[1])))
       /\ Recorded
       /\ UNCHANGED <<config_path, backup_dir, profiles_dir, current_config,
                      files, profile_files, host, now, app, loaded>>

SpecCodec == InitCodec /\ [][NextCodec]_vars

\* C21 (as claimed): a stored string of a choice setting that is shown and
\* then stored again is the stored string it was, whatever the string.
C21_ChoiceRoundTrip ==
    ret.op = "value_map" => ret.val = Some(history[1].arg[2])

\* C21: the string shown for a stored string is the label of the option
\* with that value, or the string itself when no option has that value; and
\* the string stored again is the stored string it was, whenever that
\* string is the value of an option or is not the label of an option.  A
\* string that is no value but is the label of an option comes back as the
\* value of that option.
C21_ChoiceRoundTripOfValues ==
    ret.op = "value_map" =>
       LET options == DictGet(SETTINGS_DEFINITIONS, ret.arg[1], << >>).options
           stored == history[1].arg[2]
           shown == history[1].val[1]
           Valued == { i \in 1..Len(options) : options[i][1] = stored }
           Labelled == { i \in 1..Len(options) : options[i][2] = stored }
       IN  /\ \A i \in Valued : shown = options[i][2]
           /\ Valued = {} => shown = stored
           /\ (Valued # {} \/ Labelled = {}) => ret.val = Some(stored)
           /\ Valued = {} =>
                 \A i \in Labelled : ret.val = Some(options[i][1])

\* a stored value with a label of its own was shown and stored again
C21_ValueShownAndStored ==
    /\ ret.op = "value_map"
    /\ ret.arg = << <<"FullscreenMode">>, <<"Windowed">> >>
    /\ history[1].arg[2] = <<"2">>
    /\ ret.val = Some(<<"2">>)


\* C25: a save that overwrites the config file has, in the same save,
\* created a backup tagged pre_save that holds what the config file held
\* before the save.
C25_SaveBacksUpFirst ==
    [][ (/\ steps' # steps /\ ret'.op = "save_config"
         /\ config_path # None
         /\ config_path[1] \in DOMAIN files
         /\ files'[config_path[1]] # files[config_path[1]])
        => /\ backup_dir # None
           /\ Child(backup_dir[1], backup_name(<<"pre_save">>))
                 \in DOMAIN files'
           /\ files'[Child(backup_dir[1], backup_name(<<"pre_save">>))].content
                 = files[config_path[1]].content ]_vars


\* C26: a handler that replaces the document by a read of a file while
\* there are unsaved changes has asked the user about them, and the user
\* has confirmed.  (Of the handlers, only _reload_config asks.)
C26_ReplacingAsksFirst ==
    [][ (/\ steps' # steps
         /\ unsaved_changes
         /\ ret'.op \in {"browse_config", "reload_config"}
         /\ ret'.op = "browse_config" => ret'.arg # None
         /\ ret'.op = "reload_config" => ret'.arg[1]
         /\ config_path' # None
         /\ exists(config_path'[1])
         /\ current_config' = ParseConfig(files[config_path'[1]].content))
        => /\ ret'.op = "reload_config"
           /\ ret'.arg = <<TRUE>> ]_vars


C28_ControlWritesOwnEntry ==
    [][ (steps' # steps /\ ret'.op = "save_config" /\ ret'.ok)
        => LET Own == { <<setting_widgets[i][2].definition.section,
                          setting_widgets[i][2].definition.key>> :
                        i \in 1..Len(setting_widgets) }
           IN  /\ \A i \in 1..Len(setting_widgets) :
                     LET definition == setting_widgets[i][2].definition
                         var == setting_widgets[i][2].var
                         value == IF definition.setting_type = "choice"
                                  THEN value_map(definition, var.s)
                                  ELSE str(var)
                     IN  StoredValues(current_config', definition.section,
                                      definition.key) = {value}
               /\ \A s \in 1..Len(current_config') :
                     \A k \in 1..Len(current_config'[s][2]) :
                        LET section == current_config'[s][1]
                            key == current_config'[s][2][k][1]
                        IN  <<section, key>> \notin Own
                               => StoredValues(current_config', section, key)
                                    = StoredValues(current_config, section,
                                                   key) ]_vars

\* C29: a save puts into the document, and so into the file, no entry of a
\* Competitive Settings definition that the document did not hold when the
\* save began.
C29_SaveAddsNoCompetitiveKey ==
    [][ (steps' # steps /\ ret'.op = "save_config" /\ config_path # None)
        => \A i \in 1..Len(competitive_settings_definitions) :
              is_setting_in_config(competitive_settings_definitions[i],
                                   current_config')
                 => is_setting_in_config(competitive_settings_definitions[i],
                                         current_config) ]_vars


\* C30: a save that succeeds right after a load that succeeded leaves, for
\* every definition of the catalog whose entry the loaded document holds,
\* the stored value of that entry as it was loaded.
C30_LoadSaveKeepsValues ==
    [][ (/\ steps' # steps
         /\ ret.op \in {"auto_detect_config", "browse_config",
                        "reload_config"}
         /\ ret.ok
         /\ ret'.op = "save_config" /\ ret'.ok)
        => \A i \in 1..Len(SETTINGS_DEFINITIONS) :
              LET definition == SETTINGS_DEFINITIONS[i][2]
                  Held == StoredValues(current_config, definition.section,
                                       definition.key)
              IN  Held # {}
                     => StoredValues(current_config', definition.section,
                                     definition.key) = Held ]_vars

=============================================================================
